---- MODULE Spec2Model ----
(***************************************************************************)
(* Model of the vigie comment crawler: the crawl state machine of          *)
(* src/src/inngest/index.ts (triggerCommentCrawl, fetchCommentPage), the   *)
(* crawl_status / comments / comment_updates tables it writes, and the     *)
(* platform calls it makes (getInitialCrawlData, fetchCommentPageData).    *)
(*                                                                         *)
(* Every step.run / step.sendEvent of a handler is one atomic action; the  *)
(* scheduler interleaves the steps of concurrent units freely, redelivers  *)
(* page-fetch events (at-least-once) and re-executes a unit that raised    *)
(* from its first statement.  A store operation either succeeds or returns *)
(* an error; MaxDisturb bounds the disturbances of one behaviour.          *)
(* Row timestamps of crawl_status (updated_at, last_attempted_at,          *)
(* last_successful_page_at) carry no control flow and are not modelled.    *)
(***************************************************************************)
EXTENDS Integers, Sequences, FiniteSets, Bags, TLC

\* ------------------------------------------------------------------ bounds
NumVideos == 1
MaxPages == 2
CommentsPerPage == 1
\* Disturbances per behaviour: a trigger event after the first, a redelivered
\* page-fetch event, a store error, a platform call that does not answer
\* with a page.
MaxDisturb == 2
MaxTriggerRetries == 1
\* The step process-comments alone: comments per batch, rows written, clock.
MaxBatch == 2
MaxWrites == 2
MaxClock == 1

\* --------------------------------------------------------------- constants
\* createFunction({ concurrency: 5 }) and ({ concurrency: 10, retries: 5 }).
TriggerConcurrency == 5
PageConcurrency == 10
Retries == 5
\* At most MaxDisturb + 1 trigger events and MaxDisturb + 1 chains of
\* page-fetch events exist in one behaviour, so no more units run at once.
Min(a, b) == IF a < b THEN a ELSE b
TriggerSlots == 1..Min(TriggerConcurrency, MaxDisturb + 1)
PageSlots == 1..Min(PageConcurrency, MaxDisturb + 1)

\* ------------------------------------------------------------------ values
Null == 0
NullMsg == "NULL"

PENDING == "PENDING"
IN_PROGRESS == "IN_PROGRESS"
COMPLETED == "COMPLETED"
FAILED == "FAILED"
CrawlStatusEnum == {PENDING, IN_PROGRESS, COMPLETED, FAILED}

Videos == 1..NumVideos

\* CrawlSortBy, the sort_by column: the two values of the downloader's SortBy.
POPULAR == "POPULAR"
RECENT == "RECENT"
CrawlSortBy == {POPULAR, RECENT}
\* The sort mode of a trigger unit that holds no event.
NoSortBy == "NONE"

\* A continuation token is opaque to the crawler.  The platform issues the
\* tokens of one initial fetch (one session) as a chain: Tok(s, 1) is the
\* token returned by the initial fetch of session s, Tok(s, i + 1) the next
\* token returned with page i.  The session of the n-th initial fetch, made
\* for video v, is Session(n, v).
TokBase == MaxPages + 1
Tok(s, i) == s * TokBase + i
Session(n, v) == (n - 1) * NumVideos + v
\* SessionOf(t): the number n of the initial fetch that issued token t.
SessionOf(t) == (((t \div TokBase) - 1) \div NumVideos) + 1
VideoOf(t) == (((t \div TokBase) - 1) % NumVideos) + 1
PageOf(t) == t % TokBase

\* ------------------------------------------------------------ conversions
DigitStr == <<"0", "1", "2", "3", "4", "5", "6", "7", "8", "9">>

\* String(n) of a small non-negative integer.
String(n) == DigitStr[n + 1]

\* A string whose characters matter (a comment identifier) is a sequence
\* of one-character strings.  String.prototype.includes, lastIndexOf
\* (0-based, -1 when absent) and substring (a negative bound counts as 0).
includes(str, ch) == \E i \in 1..Len(str) : str[i] = ch

lastIndexOf_first(str, ch) ==
  IF includes(str, ch)
  THEN (CHOOSE i \in 1..Len(str) :
          str[i] = ch /\ \A j \in 1..(i - 1) : str[j] # ch) - 1
  ELSE -1

lastIndexOf(str, ch) ==
  IF includes(str, ch)
  THEN (CHOOSE i \in 1..Len(str) :
          str[i] = ch /\ \A j \in (i + 1)..Len(str) : str[j] # ch) - 1
  ELSE -1

substring(str, start, end) ==
  LET a == IF start < 0 THEN 0 ELSE IF start > Len(str) THEN Len(str) ELSE start
      b == IF end < 0 THEN 0 ELSE IF end > Len(str) THEN Len(str) ELSE end
  IN IF a <= b THEN SubSeq(str, a + 1, b) ELSE SubSeq(str, b + 1, a)

\* parseInt(str, 10) || 0
parseIntOr0(str) ==
  IF \E n \in 0..9 : DigitStr[n + 1] = str
  THEN CHOOSE n \in 0..9 : DigitStr[n + 1] = str
  ELSE 0

\* ---------------------------------------------------------------- platform
ErrSorting == "Failed to find or set comment sorting."
\* new Error(`Error returned from server: ${error}`)
ServerError(error) == "Error returned from server: " \o error
ErrServer == ServerError("upstream")
ErrDb == "database error"
ErrDuplicateKey == "duplicate key value violates unique constraint"
ErrYtcfgMissing == "ytcfg is missing for crawl"

\* getInitialCrawlData: the call of session s either returns the first token of a
\* new session together with a non-null ytcfg, or throws.
InitialFetchOutcomes(s) ==
  { [kind |-> "page", continuationToken |-> Tok(s, 1), ytcfg |-> s, message |-> NullMsg],
    [kind |-> "raise", continuationToken |-> Null, ytcfg |-> Null, message |-> ErrSorting] }

\* The normalized comments of the page a token stands for: the comment
\* identifiers depend on the page only, the vote text on the session, so a
\* later crawl of the same video sees the same comments with new votes.
Cid(k) == [i \in 1..k |-> "c"]

\* The comment processAjaxResponse builds from a comment of the response.
NormalizedComment(commentId, text, votes, replies, heart) ==
  [cid |-> commentId, text |-> text, votes |-> votes, replies |-> replies,
   heart |-> heart, reply |-> includes(commentId, ".")]

PageComments(t) ==
  [j \in 1..CommentsPerPage |->
     NormalizedComment(
       Cid(((VideoOf(t) - 1) * MaxPages + PageOf(t) - 1) * CommentsPerPage + j),
       "text", String(SessionOf(t)), 0, FALSE)]

NextTokenOf(t) == IF PageOf(t) < MaxPages THEN t + 1 ELSE Null

PageFetchOutcomes_emptyContinues(t) ==
  { [kind |-> "page", comments |-> PageComments(t), nextContinuationToken |-> NextTokenOf(t)],
    [kind |-> "empty", comments |-> <<>>, nextContinuationToken |-> NextTokenOf(t)],
    [kind |-> "raise", comments |-> <<>>, nextContinuationToken |-> Null] }

\* fetchCommentPageData(token, ytcfg): the page, the empty result of an
\* exhausted or refused ajaxRequest, or the error of processAjaxResponse.
PageFetchOutcomes(t) ==
  { [kind |-> "page", comments |-> PageComments(t), nextContinuationToken |-> NextTokenOf(t)],
    [kind |-> "empty", comments |-> <<>>, nextContinuationToken |-> Null],
    [kind |-> "raise", comments |-> <<>>, nextContinuationToken |-> Null] }

\* ---------------------------------------------------- crawl_status updates
\* createCrawlRecord: the inserted row.
NewCrawlRow(v, sortBy) ==
  [video_id |-> v, sort_by |-> sortBy, status |-> PENDING, continuation_token |-> Null,
   ytcfg |-> Null, error_message |-> NullMsg]

restartCrawl(row) ==
  [row EXCEPT !.status = PENDING, !.continuation_token = Null,
              !.ytcfg = Null, !.error_message = NullMsg]

updateCrawlWithInitialToken(row, token, cfg) ==
  [row EXCEPT !.continuation_token = token, !.ytcfg = cfg]

markCrawlCompleteNoToken_unmarked(row) == row

markCrawlCompleteNoToken(row) == [row EXCEPT !.status = COMPLETED]

markCrawlFailed_dropsToken(row, errorMessage) ==
  [row EXCEPT !.status = FAILED, !.error_message = errorMessage,
              !.continuation_token = Null]

markCrawlFailed_noMessage(row, errorMessage) == [row EXCEPT !.status = FAILED]

markCrawlFailed_emptyMessage(row, errorMessage) ==
  [row EXCEPT !.status = FAILED, !.error_message = ""]

markCrawlFailed(row, errorMessage) ==
  [row EXCEPT !.status = FAILED, !.error_message = errorMessage]

setCrawlInProgress(row) == [row EXCEPT !.status = IN_PROGRESS]

updateCrawlNextPage_noToken(row, nextToken) ==
  [row EXCEPT !.status = PENDING, !.error_message = NullMsg]

updateCrawlNextPage(row, nextToken) ==
  [row EXCEPT !.status = PENDING, !.continuation_token = nextToken,
              !.error_message = NullMsg]

markCrawlCompleted_keepsToken(row) ==
  [row EXCEPT !.status = COMPLETED, !.error_message = NullMsg]

markCrawlCompleted(row) ==
  [row EXCEPT !.status = COMPLETED, !.continuation_token = Null,
              !.error_message = NullMsg]

\* ------------------------------------------------------------------- state
VARIABLES
  crawl_status,     \* table crawl_status: sequence of rows, crawl_id = index
  comments,         \* table comments: comment_id -> row
  comment_updates,  \* table comment_updates: bag of audit rows
  events,           \* pending youtube/comment.page.fetch events: crawl_id -> count
  trig,             \* trigger units (executions of triggerCommentCrawl)
  unit,             \* page-fetch units (executions of fetchCommentPage)
  sched,            \* scheduler and platform counters
  hist,             \* history of the behaviour (not read by the program)
  ajax,             \* the running call of ajaxRequest
  initial,          \* the running call of getInitialCrawlData
  proxyState,       \* proxy-config: the module's proxyState
  providerObjects,  \* proxy-config: the provider objects, by url
  selection,        \* the numbers of configurations and of selections since
  request,          \* the running call of fetchWithUserAgent
  normalized        \* the last call of processAjaxResponse

\* The state of the comment downloader.
downloader == <<ajax, initial>>

\* The state of the http client: proxies, requests and normalization.
client == <<proxyState, providerObjects, selection, request, normalized>>

vars == <<crawl_status, comments, comment_updates, events, trig, unit, sched, hist,
          downloader, client>>

\* The result {} of ajaxRequest: a response body with nothing in it.
EmptyResult ==
  [menu |-> <<>>, section |-> <<>>, other |-> <<>>, comments |-> 0, error |-> FALSE]

NoResponse == [kind |-> "none", status |-> 0, valid |-> FALSE, data |-> EmptyResult]

NoEndpoint == [meta |-> TRUE, token |-> Null]

IdleAjax ==
  [pc |-> "idle", caller |-> "none", endpoint |-> NoEndpoint, i |-> 0,
   last |-> NoResponse, result |-> EmptyResult]

\* No text of a page, no hidden input and no parameter of a request.
NoHtml == [ytcfgRaw |-> "unread", dataRaw |-> "unread", data |-> EmptyResult]
NoInputs == <<>>
NoParams == [name \in {} |-> ""]

IdleInitial ==
  [pc |-> "idle", sortBy |-> Null, ytcfgRaw |-> "unread", dataRaw |-> "unread",
   data |-> EmptyResult, continuationToken |-> Null, ytcfg |-> Null, message |-> NullMsg,
   html |-> NoHtml, inputs |-> NoInputs, params |-> NoParams, method |-> "",
   served |-> NoHtml]

\* enum ProxyRotationStrategy.
ROUND_ROBIN == "round_robin"
RANDOM == "random"
WEIGHTED == "weighted"
STICKY_SESSION == "sticky"
ProxyRotationStrategy == {ROUND_ROBIN, RANDOM, WEIGHTED, STICKY_SESSION}

\* const proxyState.
InitialProxyState ==
  [providers |-> <<>>, enabled |-> FALSE, currentIndex |-> 0,
   rotationStrategy |-> ROUND_ROBIN, stickySessionMap |-> [d \in {} |-> 0]]

\* A provider object; a field that is not set is Null.
ProxyProvider(url, type, weight, maxConsecutiveUses, consecutiveUses) ==
  [url |-> url, type |-> type, weight |-> weight,
   maxConsecutiveUses |-> maxConsecutiveUses, consecutiveUses |-> consecutiveUses]

\* The providers with a type that the caller holds and passes to
\* configureProxies: weights 3 and 1, the first with a limit of consecutive
\* uses.
CallerObjects ==
  [url \in {"W1", "W2"} |->
     ProxyProvider(url, "custom", IF url = "W1" THEN 3 ELSE 1,
                   IF url = "W1" THEN 2 ELSE Null, Null)]

\* No provider was selected and no list configured.
NoSelection == [count |-> 0, configured |-> 0]

IdleRequest == [pc |-> "idle", proxy |-> "", attempts |-> <<>>, outcome |-> "none"]

NoBody ==
  [json |-> "none", externalErrorMessage |-> "", onResponseReceivedEndpoints |-> <<>>,
   commentViewModel |-> <<>>]
NotNormalized ==
  [pc |-> "idle", response |-> NoBody, message |-> "", comments |-> <<>>,
   nextContinuationToken |-> 0]

CrawlIds == 1..Len(crawl_status)

UniqueViolation_off(v, sortBy) == FALSE

\* uq_crawl_video_sort: an insert for a pair that already has a row fails.
UniqueViolation(v, sortBy) ==
  \E c \in CrawlIds : crawl_status[c].video_id = v /\ crawl_status[c].sort_by = sortBy

findExistingCrawl_missed(v, sortBy) == Null

\* findExistingCrawl (maybeSingle): the row of the pair, or Null.
findExistingCrawl(v, sortBy) ==
  IF UniqueViolation(v, sortBy)
  THEN CHOOSE c \in CrawlIds :
         crawl_status[c].video_id = v /\ crawl_status[c].sort_by = sortBy
  ELSE Null

IdleTrigger ==
  [pc |-> "idle", video |-> Null, sortBy |-> NoSortBy, crawlId |-> Null, attempt |-> 0,
   token |-> Null, ytcfg |-> Null, err |-> NullMsg]

NoExisting ==
  [found |-> FALSE, text |-> "", votes |-> 0, reply_count |-> 0, is_hearted |-> FALSE]

IdleUnit ==
  [pc |-> "idle", crawlId |-> Null, attempt |-> 0,
   currentToken |-> Null, ytcfgForFetch |-> Null, readToken |-> Null,
   comments |-> <<>>, nextContinuationToken |-> Null, idx |-> 0,
   existing |-> NoExisting, err |-> NullMsg]
\* readToken is not a variable of the handler: it remembers, across the
\* executions of one unit, the token its last execution read from the row.

Init ==
  /\ crawl_status = <<>>
  /\ comments = <<>>
  /\ comment_updates = EmptyBag
  /\ events = <<>>
  /\ trig = [t \in TriggerSlots |-> IdleTrigger]
  /\ unit = [u \in PageSlots |-> IdleUnit]
  /\ sched = [triggers |-> 0, sessions |-> 0, disturbed |-> 0, modes |-> {POPULAR}]
  /\ hist = [clean |-> TRUE, trace |-> <<>>, consumed |-> 0, emitted |-> 0,
             persisted |-> <<>>, restartedAt |-> <<>>, writers |-> <<>>]
  /\ ajax = IdleAjax
  /\ initial = IdleInitial
  /\ proxyState = InitialProxyState
  /\ providerObjects = CallerObjects
  /\ selection = NoSelection
  /\ request = IdleRequest
  /\ normalized = NotNormalized

\* ------------------------------------------------------- history variable
\* hist.clean: one trigger so far, no store error, no redelivery, and the
\* platform answered every call with a page.  hist.trace: the statuses
\* written to the row while clean.  hist.persisted[c]: every token ever
\* stored in row c.  hist.restartedAt[c]: the number of initial fetches
\* that had been made when row c was last restarted.  hist.writers[id]: the
\* crawl_ids of the units that have written the comment row id.
Dirty(h) == [h EXCEPT !.clean = FALSE, !.trace = <<>>, !.consumed = 0, !.emitted = 0]
HistOk(h, ok) == IF ok THEN h ELSE Dirty(h)
Traced(h, s) == IF h.clean THEN [h EXCEPT !.trace = Append(@, s)] ELSE h
Wrote(h, id, c) ==
  IF id \in DOMAIN h.writers THEN [h EXCEPT !.writers[id] = @ \cup {c}]
  ELSE [h EXCEPT !.writers = @ @@ (id :> {c})]
Persisted(h, c, row) ==
  IF row.continuation_token = Null THEN h
  ELSE [h EXCEPT !.persisted[c] = @ \cup {row.continuation_token}]

\* new Date(): time advances with the crawls the platform has served.
Now == sched.sessions

\* The environment may still disturb the behaviour.
CanDisturb == sched.disturbed < MaxDisturb
Disturbed(s) == [s EXCEPT !.disturbed = @ + 1]

\* A store operation succeeds (TRUE) or returns an error (FALSE).
DbOutcomes == IF CanDisturb THEN {TRUE, FALSE} ELSE {TRUE}
Faulted(s, ok) == IF ok THEN s ELSE Disturbed(s)

\* The answers the platform may give to a call.
Allowed(outcomes) == {o \in outcomes : o.kind = "page" \/ CanDisturb}

\* ---------------------------------------------------------- trigger unit
\* The handler returns; r is the status of the returned object.
TriggerReturn(t, r) == trig' = [trig EXCEPT ![t] = IdleTrigger]
TriggerRaise(t, m) == trig' = [trig EXCEPT ![t].pc = "raised", ![t].err = m]

\* The scheduler starts triggerCommentCrawl for an external trigger event.
TriggerEvent(t, v, sortBy) ==
  /\ trig[t].pc = "idle"
  /\ sortBy \in sched.modes
  /\ \A t2 \in 1..(t - 1) : trig[t2].pc # "idle"
  /\ sched.triggers = 0 \/ CanDisturb
  /\ trig' = [trig EXCEPT ![t] = [IdleTrigger EXCEPT !.pc = "check", !.video = v,
                                                      !.sortBy = sortBy]]
  /\ sched' = IF sched.triggers = 0 THEN [sched EXCEPT !.triggers = 1]
              ELSE Disturbed([sched EXCEPT !.triggers = @ + 1])
  /\ hist' = IF sched.triggers > 0 THEN Dirty(hist) ELSE hist
  /\ UNCHANGED <<crawl_status, comments, comment_updates, events, unit, downloader, client>>

\* step check-existing-crawl and the branch on its result.
CheckExistingCrawl(t) ==
  /\ trig[t].pc = "check"
  /\ \E ok \in DbOutcomes :
       /\ sched' = Faulted(sched, ok)
       /\ hist' = HistOk(hist, ok)
       /\ IF ~ok THEN TriggerRaise(t, ErrDb)
          ELSE LET c == findExistingCrawl(trig[t].video, trig[t].sortBy) IN
               IF c = Null
               THEN trig' = [trig EXCEPT ![t].pc = "create"]
               ELSE IF crawl_status[c].status \in {COMPLETED, FAILED}
               THEN trig' = [trig EXCEPT ![t].pc = "restart", ![t].crawlId = c]
               ELSE TriggerReturn(t, "Skipped")
  /\ UNCHANGED <<crawl_status, comments, comment_updates, events, unit, downloader, client>>

\* step create-crawl-record.
CreateCrawlRecord(t) ==
  /\ trig[t].pc = "create"
  /\ \E ok \in DbOutcomes :
       /\ sched' = Faulted(sched, ok)
       /\ IF ok /\ ~UniqueViolation(trig[t].video, trig[t].sortBy)
          THEN /\ crawl_status' = Append(crawl_status,
                                       NewCrawlRow(trig[t].video, trig[t].sortBy))
               /\ events' = Append(events, 0)
               /\ trig' = [trig EXCEPT ![t].pc = "initial",
                                       ![t].crawlId = Len(crawl_status) + 1]
               /\ hist' = Traced([hist EXCEPT !.persisted = Append(@, {}),
                                              !.restartedAt = Append(@, 0)], PENDING)
          ELSE /\ TriggerRaise(t, IF ok THEN ErrDuplicateKey ELSE ErrDb)
               /\ hist' = Dirty(hist)
               /\ UNCHANGED <<crawl_status, events>>
  /\ UNCHANGED <<comments, comment_updates, unit, downloader, client>>

\* step update-crawl-status-to-pending (restart of a COMPLETED or FAILED row).
RestartCrawl(t) ==
  /\ trig[t].pc = "restart"
  /\ \E ok \in DbOutcomes :
       /\ sched' = Faulted(sched, ok)
       /\ IF ok
          THEN /\ crawl_status' = [crawl_status EXCEPT ![trig[t].crawlId] = restartCrawl(@)]
               /\ trig' = [trig EXCEPT ![t].pc = "initial"]
               /\ hist' = [hist EXCEPT !.restartedAt[trig[t].crawlId] = sched.sessions]
          ELSE /\ TriggerRaise(t, ErrDb)
               /\ hist' = Dirty(hist)
               /\ UNCHANGED crawl_status
  /\ UNCHANGED <<comments, comment_updates, events, unit, downloader, client>>

\* step get-initial-crawl-data; a result without a token marks the row
\* COMPLETED (step mark-crawl-as-completed-no-initial-token) and returns.
GetInitialCrawlData(t) ==
  /\ trig[t].pc = "initial"
  /\ \E o \in Allowed(InitialFetchOutcomes(Session(sched.sessions + 1, trig[t].video))) :
       IF o.kind = "page"
       THEN /\ sched' = [sched EXCEPT !.sessions = @ + 1]
            /\ hist' = hist
            /\ IF o.continuationToken = Null
               THEN /\ crawl_status' = [crawl_status EXCEPT
                                          ![trig[t].crawlId] = markCrawlCompleteNoToken(@)]
                    /\ TriggerReturn(t, "Completed")
               ELSE /\ trig' = [trig EXCEPT ![t].pc = "store",
                                            ![t].token = o.continuationToken,
                                            ![t].ytcfg = o.ytcfg]
                    /\ UNCHANGED crawl_status
       ELSE /\ trig' = [trig EXCEPT ![t].pc = "mark_failed",
                                    ![t].err = "Initial fetch failed: " \o o.message]
            /\ hist' = Dirty(hist)
            /\ sched' = Disturbed(sched)
            /\ UNCHANGED crawl_status
  /\ UNCHANGED <<comments, comment_updates, events, unit, downloader, client>>

\* step update-crawl-with-initial-token-and-ytcfg; its error is thrown
\* inside the try block and lands in the catch.
UpdateCrawlWithInitialTokenAndYtcfg(t) ==
  /\ trig[t].pc = "store"
  /\ \E ok \in DbOutcomes :
       /\ sched' = Faulted(sched, ok)
       /\ IF ok
          THEN LET c == trig[t].crawlId
                   row == updateCrawlWithInitialToken(crawl_status[c], trig[t].token, trig[t].ytcfg)
               IN /\ crawl_status' = [crawl_status EXCEPT ![c] = row]
                  /\ hist' = Persisted(hist, c, row)
                  /\ trig' = [trig EXCEPT ![t].pc = "send"]
          ELSE /\ trig' = [trig EXCEPT ![t].pc = "mark_failed",
                                       ![t].err = "Initial fetch failed: " \o ErrDb]
               /\ hist' = Dirty(hist)
               /\ UNCHANGED crawl_status
  /\ UNCHANGED <<comments, comment_updates, events, unit, downloader, client>>

\* step mark-crawl-as-failed-initial; its own error is only logged.
MarkCrawlAsFailedInitial(t) ==
  /\ trig[t].pc = "mark_failed"
  /\ \E ok \in DbOutcomes :
       /\ sched' = Faulted(sched, ok)
       /\ hist' = HistOk(hist, ok)
       /\ crawl_status' =
            IF ok THEN [crawl_status EXCEPT
                          ![trig[t].crawlId] = markCrawlFailed(@, trig[t].err)]
            ELSE crawl_status
       /\ TriggerReturn(t, "Failed")
  /\ UNCHANGED <<comments, comment_updates, events, unit, downloader, client>>

\* step send-fetch-page-event.
SendFetchPageEvent(t) ==
  /\ trig[t].pc = "send"
  /\ IF trig[t].token # Null
     THEN /\ events' = [events EXCEPT ![trig[t].crawlId] = @ + 1]
          /\ hist' = IF hist.clean THEN [hist EXCEPT !.emitted = @ + 1] ELSE hist
          /\ TriggerReturn(t, "Triggered")
          /\ UNCHANGED crawl_status
     ELSE /\ crawl_status' = [crawl_status EXCEPT
                                ![trig[t].crawlId] = markCrawlCompleteNoToken(@)]
          /\ TriggerReturn(t, "Completed")
          /\ UNCHANGED <<events, hist>>
  /\ UNCHANGED <<comments, comment_updates, unit, sched, downloader, client>>

\* The scheduler re-executes a trigger unit that raised, or gives up.
TriggerRetry(t) ==
  /\ trig[t].pc = "raised"
  /\ trig[t].attempt < MaxTriggerRetries
  /\ trig' = [trig EXCEPT ![t] = [IdleTrigger EXCEPT !.pc = "check",
                                                      !.video = trig[t].video,
                                                      !.sortBy = trig[t].sortBy,
                                                      !.attempt = trig[t].attempt + 1]]
  /\ UNCHANGED <<crawl_status, comments, comment_updates, events, unit, sched, hist, downloader, client>>

TriggerGiveUp(t) ==
  /\ trig[t].pc = "raised"
  /\ trig[t].attempt >= MaxTriggerRetries
  /\ TriggerReturn(t, "raised")
  /\ UNCHANGED <<crawl_status, comments, comment_updates, events, unit, sched, hist, downloader, client>>

TriggerStep(t) ==
  \/ \E v \in Videos, sortBy \in CrawlSortBy : TriggerEvent(t, v, sortBy)
  \/ CheckExistingCrawl(t)
  \/ CreateCrawlRecord(t)
  \/ RestartCrawl(t)
  \/ GetInitialCrawlData(t)
  \/ UpdateCrawlWithInitialTokenAndYtcfg(t)
  \/ MarkCrawlAsFailedInitial(t)
  \/ SendFetchPageEvent(t)
  \/ TriggerRetry(t)
  \/ TriggerGiveUp(t)

\* ----------------------------------------------------- comment upsert
\* commentData of the process-comments loop.
CommentData(comment, videoId, now) ==
  [comment_id |-> comment.cid,
   video_id |-> videoId,
   parent_comment_id |->
     IF comment.reply
     THEN substring(comment.cid, 0, lastIndexOf(comment.cid, "."))
     ELSE Null,
   text |-> comment.text,
   votes |-> parseIntOr0(comment.votes),
   reply_count |-> comment.replies,
   is_hearted |-> comment.heart,
   last_updated_at |-> now]

Changes_always(existing, data) ==
  <<[comment_id |-> data.comment_id, attribute_name |-> "votes",
     old_value |-> String(existing.votes), new_value |-> String(data.votes)]>>

\* The audit rows staged for an existing comment: text, then votes.
Changes(existing, data) ==
  (IF existing.text # data.text
   THEN <<[comment_id |-> data.comment_id, attribute_name |-> "text",
           old_value |-> existing.text, new_value |-> data.text]>>
   ELSE <<>>)
  \o
  (IF existing.votes # data.votes
   THEN <<[comment_id |-> data.comment_id, attribute_name |-> "votes",
           old_value |-> String(existing.votes), new_value |-> String(data.votes)]>>
   ELSE <<>>)

ApplyUpdates_touchesFirstSeen(row, existing, data, now) ==
  [row EXCEPT !.text = data.text, !.votes = data.votes,
              !.first_seen_at = now, !.last_updated_at = now]

\* The update applied to the stored row: the differing attributes and
\* last_updated_at.
ApplyUpdates(row, existing, data, now) ==
  [row EXCEPT !.text = IF existing.text # data.text THEN data.text ELSE @,
              !.votes = IF existing.votes # data.votes THEN data.votes ELSE @,
              !.last_updated_at = now]

\* The row inserted for a new comment.
InsertedComment(data, now) ==
  [video_id |-> data.video_id, parent_comment_id |-> data.parent_comment_id,
   text |-> data.text, votes |-> data.votes,
   reply_count |-> data.reply_count, is_hearted |-> data.is_hearted,
   first_seen_at |-> now, last_updated_at |-> data.last_updated_at]

RECURSIVE SeqToBag(_)
SeqToBag(q) == IF q = <<>> THEN EmptyBag ELSE SetToBag({Head(q)}) (+) SeqToBag(Tail(q))

\* ------------------------------------------------------- page-fetch unit
\* Where the handler continues after comment number idx of the page.
AfterComment(r, idx) ==
  IF idx < Len(r.comments)
  THEN [r EXCEPT !.pc = "select", !.idx = idx + 1, !.existing = NoExisting]
  ELSE [r EXCEPT !.pc = IF r.nextContinuationToken # Null THEN "update_next"
                        ELSE "mark_completed",
                 !.idx = 0, !.existing = NoExisting, !.comments = <<>>]

\* The handler returns; r is the status of the returned object.
UnitReturn(u, r) == unit' = [unit EXCEPT ![u] = IdleUnit]
UnitRaise_caught(u, m) ==
  unit' = [unit EXCEPT ![u] = [IdleUnit EXCEPT !.pc = "mark_failed", !.err = m,
                                                !.crawlId = unit[u].crawlId,
                                                !.attempt = unit[u].attempt,
                                                !.readToken = unit[u].readToken]]

UnitRaise(u, m) ==
  unit' = [unit EXCEPT ![u] = [IdleUnit EXCEPT !.pc = "raised", !.err = m,
                                                !.crawlId = unit[u].crawlId,
                                                !.attempt = unit[u].attempt,
                                                !.readToken = unit[u].readToken]]
UnitCatch_continues(u, m) ==
  unit' = [unit EXCEPT ![u] = AfterComment(@, Len(unit[u].comments))]

\* An error thrown inside the try block: the catch runs mark-crawl-failed.
UnitCatch(u, m) ==
  unit' = [unit EXCEPT ![u] = [IdleUnit EXCEPT !.pc = "mark_failed", !.err = m,
                                                !.crawlId = unit[u].crawlId,
                                                !.attempt = unit[u].attempt,
                                                !.readToken = unit[u].readToken]]

CurrentComment(u) ==
  CommentData(unit[u].comments[unit[u].idx],
              crawl_status[unit[u].crawlId].video_id, Now)

\* The scheduler delivers a page-fetch event to fetchCommentPage.
PageFetchEvent(u, c) ==
  /\ unit[u].pc = "idle"
  /\ \A u2 \in 1..(u - 1) : unit[u2].pc # "idle"
  /\ events[c] > 0
  /\ events' = [events EXCEPT ![c] = @ - 1]
  /\ unit' = [unit EXCEPT ![u] = [IdleUnit EXCEPT !.pc = "get", !.crawlId = c]]
  /\ hist' = IF hist.clean THEN [hist EXCEPT !.consumed = @ + 1] ELSE hist
  /\ UNCHANGED <<crawl_status, comments, comment_updates, trig, sched, downloader, client>>

\* At-least-once delivery: the scheduler delivers an event a second time.
Redeliver(c) ==
  /\ CanDisturb
  /\ \/ events[c] > 0
     \/ \E u \in PageSlots : unit[u].pc # "idle" /\ unit[u].crawlId = c
  /\ events' = [events EXCEPT ![c] = @ + 1]
  /\ sched' = Disturbed(sched)
  /\ hist' = Dirty(hist)
  /\ UNCHANGED <<crawl_status, comments, comment_updates, trig, unit, downloader, client>>

\* step get-crawl-details and the validation of the row that follows it.
GetCrawlDetails(u) ==
  /\ unit[u].pc = "get"
  /\ \E ok \in DbOutcomes :
       /\ sched' = Faulted(sched, ok)
       /\ LET crawl == crawl_status[unit[u].crawlId] IN
          IF ~ok THEN UnitRaise(u, ErrDb) /\ hist' = Dirty(hist)
          ELSE IF crawl.status # PENDING /\ crawl.status # IN_PROGRESS
          THEN UnitReturn(u, "Skipped") /\ hist' = hist
          ELSE IF crawl.continuation_token = Null
          THEN unit' = [unit EXCEPT ![u].pc = "complete_no_token"] /\ hist' = hist
          ELSE IF crawl.ytcfg = Null
          THEN UnitRaise(u, ErrYtcfgMissing) /\ hist' = Dirty(hist)
          ELSE /\ unit' = [unit EXCEPT ![u].pc = "set_in_progress",
                                       ![u].currentToken = crawl.continuation_token,
                                       ![u].ytcfgForFetch = crawl.ytcfg,
                                       ![u].readToken = crawl.continuation_token]
               /\ hist' = hist
  /\ UNCHANGED <<crawl_status, comments, comment_updates, events, trig, downloader, client>>

\* step mark-crawl-completed-no-token-fetch; its error is only logged.
MarkCrawlCompletedNoTokenFetch(u) ==
  /\ unit[u].pc = "complete_no_token"
  /\ \E ok \in DbOutcomes :
       /\ sched' = Faulted(sched, ok)
       /\ hist' = Traced(HistOk(hist, ok), COMPLETED)
       /\ crawl_status' =
            IF ok THEN [crawl_status EXCEPT
                          ![unit[u].crawlId] = markCrawlCompleteNoToken(@)]
            ELSE crawl_status
       /\ UnitReturn(u, "Completed")
  /\ UNCHANGED <<comments, comment_updates, events, trig, downloader, client>>

\* step set-crawl-in-progress; its error is thrown before the try block.
SetCrawlInProgress(u) ==
  /\ unit[u].pc = "set_in_progress"
  /\ \E ok \in DbOutcomes :
       /\ sched' = Faulted(sched, ok)
       /\ IF ok
          THEN /\ crawl_status' = [crawl_status EXCEPT
                                     ![unit[u].crawlId] = setCrawlInProgress(@)]
               /\ unit' = [unit EXCEPT ![u].pc = "fetch"]
               /\ hist' = Traced(hist, IN_PROGRESS)
          ELSE /\ UnitRaise(u, ErrDb)
               /\ hist' = Dirty(hist)
               /\ UNCHANGED crawl_status
  /\ UNCHANGED <<comments, comment_updates, events, trig, downloader, client>>

\* step fetch-comment-page-data.
FetchCommentPageData(u) ==
  /\ unit[u].pc = "fetch"
  /\ \E o \in Allowed(PageFetchOutcomes(unit[u].currentToken)) :
       IF o.kind = "raise"
       THEN UnitCatch(u, ErrServer) /\ hist' = Dirty(hist) /\ sched' = Disturbed(sched)
       ELSE /\ unit' = [unit EXCEPT ![u] =
                 AfterComment([@ EXCEPT !.comments = o.comments,
                                        !.nextContinuationToken = o.nextContinuationToken,
                                        !.currentToken = Null,
                                        !.ytcfgForFetch = Null], 0)]
            /\ hist' = IF o.kind = "page" THEN hist ELSE Dirty(hist)
            /\ sched' = IF o.kind = "page" THEN sched ELSE Disturbed(sched)
  /\ UNCHANGED <<crawl_status, comments, comment_updates, events, trig, downloader, client>>

\* process-comments: the lookup of the existing comment.
SelectExistingComment(u) ==
  /\ unit[u].pc = "select"
  /\ \E ok \in DbOutcomes :
       /\ sched' = Faulted(sched, ok)
       /\ hist' = HistOk(hist, ok)
       /\ LET data == CurrentComment(u) IN
          IF ~ok THEN UnitCatch(u, ErrDb)
          ELSE IF data.comment_id \in DOMAIN comments
          THEN LET existing == [found |-> TRUE,
                                text |-> comments[data.comment_id].text,
                                votes |-> comments[data.comment_id].votes,
                                reply_count |-> comments[data.comment_id].reply_count,
                                is_hearted |-> comments[data.comment_id].is_hearted]
               IN IF Changes(existing, data) # <<>>
                  THEN unit' = [unit EXCEPT ![u].pc = "update", ![u].existing = existing]
                  ELSE unit' = [unit EXCEPT ![u] = AfterComment(@, unit[u].idx)]
          ELSE unit' = [unit EXCEPT ![u].pc = "insert"]
  /\ UNCHANGED <<crawl_status, comments, comment_updates, events, trig, downloader, client>>

\* process-comments: the update of a changed comment.
UpdateComment(u) ==
  /\ unit[u].pc = "update"
  /\ \E ok \in DbOutcomes :
       /\ sched' = Faulted(sched, ok)
       /\ LET data == CurrentComment(u) IN
          IF ok
          THEN /\ comments' = [comments EXCEPT ![data.comment_id] =
                                 ApplyUpdates(@, unit[u].existing, data, Now)]
               /\ unit' = [unit EXCEPT ![u].pc = "audit"]
               /\ hist' = Wrote(hist, data.comment_id, unit[u].crawlId)
          ELSE /\ UnitCatch(u, ErrDb)
               /\ hist' = Dirty(hist)
               /\ UNCHANGED comments
  /\ UNCHANGED <<crawl_status, comment_updates, events, trig, downloader, client>>

InsertCommentUpdates_fatal(u) ==
  /\ unit[u].pc = "audit"
  /\ \E ok \in DbOutcomes :
       /\ sched' = Faulted(sched, ok)
       /\ hist' = HistOk(hist, ok)
       /\ IF ok
          THEN /\ comment_updates' = comment_updates (+)
                    SeqToBag(Changes(unit[u].existing, CurrentComment(u)))
               /\ unit' = [unit EXCEPT ![u] = AfterComment(@, unit[u].idx)]
          ELSE /\ UnitCatch(u, ErrDb)
               /\ UNCHANGED comment_updates
  /\ UNCHANGED <<crawl_status, comments, events, trig, downloader, client>>

\* process-comments: the insert of the audit rows; its error is only logged.
InsertCommentUpdates(u) ==
  /\ unit[u].pc = "audit"
  /\ \E ok \in DbOutcomes :
       /\ sched' = Faulted(sched, ok)
       /\ hist' = HistOk(hist, ok)
       /\ comment_updates' =
            IF ok THEN comment_updates (+) SeqToBag(Changes(unit[u].existing, CurrentComment(u)))
            ELSE comment_updates
       /\ unit' = [unit EXCEPT ![u] = AfterComment(@, unit[u].idx)]
  /\ UNCHANGED <<crawl_status, comments, events, trig, downloader, client>>

\* process-comments: the insert of a new comment (comment_id is the
\* primary key of comments).
InsertComment(u) ==
  /\ unit[u].pc = "insert"
  /\ \E ok \in DbOutcomes :
       /\ sched' = Faulted(sched, ok)
       /\ LET data == CurrentComment(u) IN
          IF ok /\ data.comment_id \notin DOMAIN comments
          THEN /\ comments' = comments @@ (data.comment_id :> InsertedComment(data, Now))
               /\ unit' = [unit EXCEPT ![u] = AfterComment(@, unit[u].idx)]
               /\ hist' = Wrote(hist, data.comment_id, unit[u].crawlId)
          ELSE /\ UnitCatch(u, IF ok THEN ErrDuplicateKey ELSE ErrDb)
               /\ hist' = Dirty(hist)
               /\ UNCHANGED comments
  /\ UNCHANGED <<crawl_status, comment_updates, events, trig, downloader, client>>

\* step update-crawl-next-page.
UpdateCrawlNextPage(u) ==
  /\ unit[u].pc = "update_next"
  /\ \E ok \in DbOutcomes :
       /\ sched' = Faulted(sched, ok)
       /\ IF ok
          THEN LET c == unit[u].crawlId
                   row == updateCrawlNextPage(crawl_status[c], unit[u].nextContinuationToken)
               IN /\ crawl_status' = [crawl_status EXCEPT ![c] = row]
                  /\ hist' = Traced(Persisted(hist, c, row), PENDING)
                  /\ unit' = [unit EXCEPT ![u].pc = "send"]
          ELSE /\ UnitCatch(u, ErrDb)
               /\ hist' = Dirty(hist)
               /\ UNCHANGED crawl_status
  /\ UNCHANGED <<comments, comment_updates, events, trig, downloader, client>>

\* step send-next-page-event.
SendNextPageEvent(u) ==
  /\ unit[u].pc = "send"
  /\ events' = [events EXCEPT ![unit[u].crawlId] = @ + 1]
  /\ hist' = IF hist.clean THEN [hist EXCEPT !.emitted = @ + 1] ELSE hist
  /\ UnitReturn(u, "Page Processed")
  /\ UNCHANGED <<crawl_status, comments, comment_updates, trig, sched, downloader, client>>

\* step mark-crawl-completed.
MarkCrawlCompleted(u) ==
  /\ unit[u].pc = "mark_completed"
  /\ \E ok \in DbOutcomes :
       /\ sched' = Faulted(sched, ok)
       /\ IF ok
          THEN /\ crawl_status' = [crawl_status EXCEPT
                                     ![unit[u].crawlId] = markCrawlCompleted(@)]
               /\ hist' = Traced(hist, COMPLETED)
               /\ UnitReturn(u, "Completed")
          ELSE /\ UnitCatch(u, ErrDb)
               /\ hist' = Dirty(hist)
               /\ UNCHANGED crawl_status
  /\ UNCHANGED <<comments, comment_updates, events, trig, downloader, client>>

\* catch: step mark-crawl-failed (its own error is only logged), then the
\* original error is thrown again.
MarkCrawlFailed(u) ==
  /\ unit[u].pc = "mark_failed"
  /\ \E ok \in DbOutcomes :
       /\ sched' = Faulted(sched, ok)
       /\ hist' = HistOk(hist, ok)
       /\ crawl_status' =
            IF ok THEN [crawl_status EXCEPT
                          ![unit[u].crawlId] = markCrawlFailed(@, unit[u].err)]
            ELSE crawl_status
       /\ unit' = [unit EXCEPT ![u].pc = "raised"]
  /\ UNCHANGED <<comments, comment_updates, events, trig, downloader, client>>

\* The scheduler re-executes a page-fetch unit that raised, or gives up.
PageRetry(u) ==
  /\ unit[u].pc = "raised"
  /\ unit[u].attempt < Retries
  /\ unit' = [unit EXCEPT ![u] = [IdleUnit EXCEPT !.pc = "get",
                                                  !.crawlId = unit[u].crawlId,
                                                  !.attempt = unit[u].attempt + 1,
                                                  !.readToken = unit[u].readToken]]
  /\ UNCHANGED <<crawl_status, comments, comment_updates, events, trig, sched, hist, downloader, client>>

PageGiveUp(u) ==
  /\ unit[u].pc = "raised"
  /\ unit[u].attempt >= Retries
  /\ UnitReturn(u, "raised")
  /\ UNCHANGED <<crawl_status, comments, comment_updates, events, trig, sched, hist, downloader, client>>

PageStep(u) ==
  \/ \E c \in CrawlIds : PageFetchEvent(u, c)
  \/ GetCrawlDetails(u)
  \/ MarkCrawlCompletedNoTokenFetch(u)
  \/ SetCrawlInProgress(u)
  \/ FetchCommentPageData(u)
  \/ SelectExistingComment(u)
  \/ UpdateComment(u)
  \/ InsertCommentUpdates(u)
  \/ InsertComment(u)
  \/ UpdateCrawlNextPage(u)
  \/ SendNextPageEvent(u)
  \/ MarkCrawlCompleted(u)
  \/ MarkCrawlFailed(u)
  \/ PageRetry(u)
  \/ PageGiveUp(u)

Next ==
  \/ \E t \in TriggerSlots : TriggerStep(t)
  \/ \E u \in PageSlots : PageStep(u)
  \/ \E c \in CrawlIds : Redeliver(c)

Spec == Init /\ [][Next]_vars

\* The same program with trigger events for both sort modes.  The two
\* modes are interchangeable, so the behaviours start where the first
\* trigger event, for video 1 sorted by POPULAR, has just been delivered.
InitBothModes ==
  /\ crawl_status = <<>>
  /\ comments = <<>>
  /\ comment_updates = EmptyBag
  /\ events = <<>>
  /\ trig = [t \in TriggerSlots |->
               IF t = 1 THEN [IdleTrigger EXCEPT !.pc = "check", !.video = 1,
                                                 !.sortBy = POPULAR]
               ELSE IdleTrigger]
  /\ unit = [u \in PageSlots |-> IdleUnit]
  /\ sched = [triggers |-> 1, sessions |-> 0, disturbed |-> 0, modes |-> CrawlSortBy]
  /\ hist = [clean |-> TRUE, trace |-> <<>>, consumed |-> 0, emitted |-> 0,
             persisted |-> <<>>, restartedAt |-> <<>>, writers |-> <<>>]
  /\ ajax = IdleAjax
  /\ initial = IdleInitial
  /\ proxyState = InitialProxyState
  /\ providerObjects = CallerObjects
  /\ selection = NoSelection
  /\ request = IdleRequest
  /\ normalized = NotNormalized

SpecBothModes == InitBothModes /\ [][Next]_vars

\* ------------------------------------------- the page-fetch units alone
\* The rows a second crawl of video 1 leaves PENDING or IN_PROGRESS while
\* a page-fetch event for them is pending: with or without the token of
\* the second initial fetch and its ytcfg.
LeftRows ==
  {[NewCrawlRow(1, POPULAR) EXCEPT !.status = status, !.continuation_token = token,
                                   !.ytcfg = cfg] :
     status \in {PENDING, IN_PROGRESS}, token \in {Null, Tok(2, 1)}, cfg \in {Null, 2}}
  \ {[NewCrawlRow(1, POPULAR) EXCEPT !.ytcfg = 2],
     [NewCrawlRow(1, POPULAR) EXCEPT !.status = IN_PROGRESS,
                                     !.continuation_token = Tok(2, 1)]}

\* The comment of the first page as the first crawl stored it.
StoredComments ==
  LET data == CommentData(PageComments(Tok(1, 1))[1], 1, 1) IN
  (data.comment_id :> InsertedComment(data, 1))

\* The page-fetch units run on such a row, with the event delivered at
\* least once.
InitPageFetch ==
  /\ crawl_status \in {<<row>> : row \in LeftRows}
  /\ comments = StoredComments
  /\ comment_updates = EmptyBag
  /\ events = <<1>>
  /\ trig = [t \in TriggerSlots |-> IdleTrigger]
  /\ unit = [u \in PageSlots |-> IdleUnit]
  /\ sched = [triggers |-> 2, sessions |-> 2, disturbed |-> 0, modes |-> {POPULAR}]
  /\ hist = [clean |-> FALSE, trace |-> <<>>, consumed |-> 0, emitted |-> 0,
             persisted |-> <<{Tok(2, 1)}>>, restartedAt |-> <<1>>,
             writers |-> [id \in DOMAIN StoredComments |-> {1}]]
  /\ ajax = IdleAjax
  /\ initial = IdleInitial
  /\ proxyState = InitialProxyState
  /\ providerObjects = CallerObjects
  /\ selection = NoSelection
  /\ request = IdleRequest
  /\ normalized = NotNormalized

NextPageFetch ==
  \/ \E u \in PageSlots : PageStep(u)
  \/ \E c \in CrawlIds : Redeliver(c)

SpecPageFetch == InitPageFetch /\ [][NextPageFetch]_vars

\* The trigger events of a pair are processed one after another: one
\* trigger unit at a time, and every page-fetch event is delivered once.
\* The behaviour starts with the empty tables, or with a row an earlier
\* crawl left and its one page-fetch event.
InitSequential == Init \/ InitPageFetch

NextSequential ==
  \/ TriggerStep(1)
  \/ \E u \in PageSlots : PageStep(u)

SpecSequential == InitSequential /\ [][NextSequential]_vars

\* --------------------------------------- the step process-comments alone
\* One page-fetch unit runs the step process-comments on any batch of
\* normalized comments, again and again, while the clock advances.
UpsertIds == {<<"a">>, <<"a", ".", "b", ".", "c">>}

UpsertComments ==
  { NormalizedComment(id, text, votes, replies, heart) :
      id \in UpsertIds, text \in {"text", "edited"}, votes \in {"5", "9"},
      replies \in {0, 1}, heart \in BOOLEAN }

\* A batch lists one comment, up to MaxBatch times.
UpsertBatches ==
  { [i \in 1..n |-> comment] : comment \in UpsertComments, n \in 1..MaxBatch }

InitUpsert ==
  /\ crawl_status = <<[NewCrawlRow(1, POPULAR) EXCEPT !.status = IN_PROGRESS,
                                                      !.continuation_token = Tok(1, 1),
                                                      !.ytcfg = 1]>>
  /\ comments = <<>>
  /\ comment_updates = EmptyBag
  /\ events = <<0>>
  /\ trig = [t \in TriggerSlots |-> IdleTrigger]
  /\ unit = [u \in PageSlots |-> IdleUnit]
  /\ sched = [triggers |-> 1, sessions |-> 0, disturbed |-> 0, modes |-> {POPULAR}]
  /\ hist = [clean |-> FALSE, trace |-> <<>>, consumed |-> 0, emitted |-> 0,
             persisted |-> <<{Tok(1, 1)}>>, restartedAt |-> <<0>>, writers |-> <<>>]
  /\ ajax = IdleAjax
  /\ initial = IdleInitial
  /\ proxyState = InitialProxyState
  /\ providerObjects = CallerObjects
  /\ selection = NoSelection
  /\ request = IdleRequest
  /\ normalized = NotNormalized

\* The step starts on a batch of comments.
ProcessComments(u, batch) ==
  /\ unit[u].pc = "idle"
  /\ Cardinality(DOMAIN comments) + BagCardinality(comment_updates) < MaxWrites
  /\ unit' = [unit EXCEPT ![u] =
                AfterComment([IdleUnit EXCEPT !.crawlId = 1, !.comments = batch], 0)]
  /\ UNCHANGED <<crawl_status, comments, comment_updates, events, trig, sched, hist, downloader, client>>

\* The step ends: the loop is over, or an upsert has thrown.
ProcessCommentsDone(u) ==
  /\ unit[u].pc \in {"mark_completed", "mark_failed"}
  /\ unit' = [unit EXCEPT ![u] = IdleUnit]
  /\ UNCHANGED <<crawl_status, comments, comment_updates, events, trig, sched, hist, downloader, client>>

\* new Date() returns a later time.
Tick ==
  /\ sched.sessions < MaxClock
  /\ sched' = [sched EXCEPT !.sessions = @ + 1]
  /\ UNCHANGED <<crawl_status, comments, comment_updates, events, trig, unit, hist, downloader, client>>

NextUpsert ==
  \/ \E batch \in UpsertBatches : ProcessComments(1, batch)
  \/ SelectExistingComment(1)
  \/ UpdateComment(1)
  \/ InsertCommentUpdates(1)
  \/ InsertComment(1)
  \/ ProcessCommentsDone(1)
  \/ Tick

SpecUpsert == InitUpsert /\ [][NextUpsert]_vars

\* ------------------------------- CommentService.processCommentBatch
\* String(boolean).
BooleanString(b) == IF b THEN "true" ELSE "false"

Change(data, attribute, old, new) ==
  IF old # new
  THEN <<[comment_id |-> data.comment_id, attribute_name |-> attribute,
          old_value |-> old, new_value |-> new]>>
  ELSE <<>>

\* upsertComment: the audit rows staged for an existing comment: text,
\* votes, reply_count, is_hearted.
ServiceChanges(existing, data) ==
  Change(data, "text", existing.text, data.text)
  \o Change(data, "votes", String(existing.votes), String(data.votes))
  \o Change(data, "reply_count", String(existing.reply_count), String(data.reply_count))
  \o Change(data, "is_hearted", BooleanString(existing.is_hearted),
            BooleanString(data.is_hearted))

\* upsertComment: the update of the stored row.
ServiceUpdates(row, data, now) ==
  [row EXCEPT !.text = data.text, !.votes = data.votes,
              !.reply_count = data.reply_count, !.is_hearted = data.is_hearted,
              !.last_updated_at = now]

insertCommentUpdates_replaces(cu, changes) == SeqToBag(changes)

\* upsertComment: the insert of the staged audit rows into comment_updates.
insertCommentUpdates(cu, changes) == cu (+) SeqToBag(changes)

\* The store operations of upsertComment that may return an error.
UpsertFailures == {"none", "select", "write", "audit"}

\* CommentService.upsertComment(comment, videoId) on the tables cs and cu
\* when the store operation fail returns an error: the tables afterwards,
\* whether that operation was reached, and whether upsertComment threw.
upsertComment(cs, cu, comment, videoId, now, fail) ==
  LET data == CommentData(comment, videoId, now)
      id == data.comment_id
  IN IF fail = "select"
     THEN [comments |-> cs, comment_updates |-> cu, failed |-> TRUE, thrown |-> TRUE]
     ELSE IF id \in DOMAIN cs
     THEN LET changes == ServiceChanges(cs[id], data) IN
          IF changes = <<>>
          THEN [comments |-> cs, comment_updates |-> cu, failed |-> FALSE, thrown |-> FALSE]
          ELSE IF fail = "write"
          THEN [comments |-> cs, comment_updates |-> cu, failed |-> TRUE, thrown |-> TRUE]
          ELSE [comments |-> [cs EXCEPT ![id] = ServiceUpdates(@, data, now)],
                comment_updates |-> IF fail = "audit" THEN cu
                                   ELSE insertCommentUpdates(cu, changes),
                failed |-> fail = "audit", thrown |-> FALSE]
     ELSE IF fail = "write"
     THEN [comments |-> cs, comment_updates |-> cu, failed |-> TRUE, thrown |-> TRUE]
     ELSE [comments |-> cs @@ (id :> InsertedComment(data, now)),
           comment_updates |-> cu, failed |-> FALSE, thrown |-> FALSE]

\* The comments a caller hands to processCommentBatch.
ServiceComments ==
  { NormalizedComment(id, text, "5", replies, FALSE) :
      id \in UpsertIds, text \in {"text", "edited"}, replies \in {0, 1} }

ServiceBatches ==
  { [i \in 1..n |-> IF i = 1 THEN first ELSE second] :
      first \in ServiceComments, second \in ServiceComments, n \in 1..MaxBatch }

NextInBatch_rethrows(r, thrown) ==
  IF thrown THEN [r EXCEPT !.pc = "raised", !.err = ErrDb]
  ELSE IF r.idx < Len(r.comments) THEN [r EXCEPT !.idx = r.idx + 1]
  ELSE [r EXCEPT !.pc = "batch_done"]

\* processCommentBatch: the catch logs the error of one comment; the loop
\* goes on with the next comment or is over.
NextInBatch(r, thrown) ==
  IF r.idx < Len(r.comments) THEN [r EXCEPT !.idx = r.idx + 1]
  ELSE [r EXCEPT !.pc = "batch_done"]

\* processCommentBatch(comments, videoId) is called.
ProcessCommentBatch(u) ==
  /\ unit[u].pc = "idle"
  /\ Cardinality(DOMAIN comments) + BagCardinality(comment_updates) < MaxWrites
  /\ \E batch \in ServiceBatches :
       unit' = [unit EXCEPT ![u] = [IdleUnit EXCEPT !.pc = "upsert", !.crawlId = 1,
                                                    !.comments = batch, !.idx = 1]]
  /\ UNCHANGED <<crawl_status, comments, comment_updates, events, trig, sched, hist, downloader, client>>

\* One pass of the loop: upsertComment on the current comment, inside the
\* try.
ServiceUpsertComment(u) ==
  /\ unit[u].pc = "upsert"
  /\ \E fail \in UpsertFailures :
       LET result == upsertComment(comments, comment_updates,
                                   unit[u].comments[unit[u].idx],
                                   crawl_status[unit[u].crawlId].video_id, Now, fail)
       IN /\ fail # "none" => CanDisturb /\ result.failed
          /\ comments' = result.comments
          /\ comment_updates' = result.comment_updates
          /\ sched' = IF fail = "none" THEN sched ELSE Disturbed(sched)
          /\ unit' = [unit EXCEPT ![u] = NextInBatch(@, result.thrown)]
  /\ UNCHANGED <<crawl_status, events, trig, hist, downloader, client>>

\* processCommentBatch returns.
ProcessCommentBatchDone(u) ==
  /\ unit[u].pc = "batch_done"
  /\ unit' = [unit EXCEPT ![u] = IdleUnit]
  /\ UNCHANGED <<crawl_status, comments, comment_updates, events, trig, sched, hist, downloader, client>>

NextService ==
  \/ ProcessCommentBatch(1)
  \/ ServiceUpsertComment(1)
  \/ ProcessCommentBatchDone(1)
  \/ Tick

SpecService == InitUpsert /\ [][NextService]_vars

\* ------------------------------------------------- comment downloader
\* The program apart from the comment downloader.
program == <<crawl_status, comments, comment_updates, events, trig, unit, sched, hist>>

AjaxRetries == 5

\* Continuation tokens of a watch page: of the items of the sort menu, of
\* the section list, of a continuation command elsewhere in the data and of
\* the continuation item after the comments.
MenuToken(i) == i
SectionToken == 3
OtherToken == 4
NextToken == 5

\* enum SortBy.
SortBy(mode) == IF mode = RECENT THEN 1 ELSE 0

\* A continuation endpoint: meta says it carries commandMetadata with the
\* apiUrl, token is the token of its continuationCommand.
Endpoint(meta, token) == [meta |-> meta, token |-> token]
Endpoints ==
  {Endpoint(TRUE, SectionToken), Endpoint(TRUE, Null), Endpoint(FALSE, SectionToken)}

\* The items of the sort menu, each with or without the token of its
\* service endpoint.
MenuItems(i) == {Null, MenuToken(i)}
Menus ==
  {<<>>} \cup {<<a>> : a \in MenuItems(1)}
         \cup {<<a, b>> : a \in MenuItems(1), b \in MenuItems(2)}

\* What the downloader reads of a parsed body (initial data or the answer
\* to a continuation request): the sort menu, the continuation endpoints of
\* the section list, the other continuation commands, the number of
\* comments and whether it carries an externalErrorMessage.
YtData ==
  [menu : Menus, section : {<<>>} \cup {<<e>> : e \in Endpoints},
   other : {<<>>, <<OtherToken>>, <<Null, NextToken>>},
   comments : 0..1, error : BOOLEAN]

\* processAjaxResponse, as far as getInitialCrawlData reads it.
processAjaxResponse(response) ==
  IF response.error
  THEN [kind |-> "raise", comments |-> 0, nextContinuationToken |-> Null]
  ELSE [kind |-> "ok", comments |-> response.comments,
        nextContinuationToken |->
          IF \E k \in 1..Len(response.other) : response.other[k] = NextToken
          THEN NextToken ELSE Null]

\* The outcomes of one fetch of ajaxRequest: the fetch throws, or answers
\* with a status and a body; res.json() parses the body of a 200 or throws.
AjaxResponses ==
  {[kind |-> "response", status |-> 200, valid |-> TRUE, data |-> d] : d \in YtData}
  \cup {[kind |-> "response", status |-> st, valid |-> FALSE, data |-> EmptyResult] :
          st \in {200, 403, 413, 429, 500}}
  \cup {[kind |-> "error", status |-> 0, valid |-> FALSE, data |-> EmptyResult]}

\* ajaxRequest up to its loop: url and data are read from the endpoint
\* outside the try.
ajaxRequest(endpoint, caller) ==
  ajax' = [IdleAjax EXCEPT !.pc = IF endpoint.meta THEN "loop" ELSE "raised",
                           !.caller = caller, !.endpoint = endpoint]

NextAttempt(a) == [a EXCEPT !.i = @ + 1]
Returned(a, body) == [a EXCEPT !.pc = "returned", !.result = body]

AfterResponse_retriesForbidden(a, r) ==
  IF r.kind = "response" /\ r.status = 200 /\ r.valid
  THEN Returned(a, r.data) ELSE NextAttempt(a)

\* One iteration of the loop of ajaxRequest after its fetch.
AfterResponse(a, r) ==
  IF r.kind = "error" THEN NextAttempt(a)
  ELSE IF r.status = 200
       THEN IF r.valid THEN Returned(a, r.data) ELSE NextAttempt(a)
  ELSE IF r.status \in {403, 413, 429}
       THEN IF r.status = 429 THEN NextAttempt(a) ELSE Returned(a, EmptyResult)
  ELSE NextAttempt(a)

AjaxAttempt ==
  /\ ajax.pc = "loop"
  /\ ajax.i < AjaxRetries
  /\ \E r \in AjaxResponses : ajax' = AfterResponse([ajax EXCEPT !.last = r], r)
  /\ UNCHANGED <<program, initial, client>>

\* The loop of ajaxRequest ends: return {}.
AjaxExhausted ==
  /\ ajax.pc = "loop"
  /\ ajax.i >= AjaxRetries
  /\ ajax' = Returned(ajax, EmptyResult)
  /\ UNCHANGED <<program, initial, client>>

\* fetchCommentPageData: the continuation request of a page.
fetchCommentPageData(token) ==
  /\ ajax.pc = "idle"
  /\ initial.pc = "idle"
  /\ ajaxRequest(Endpoint(TRUE, token), "page")
  /\ UNCHANGED <<program, initial, client>>

fetchCommentPageDataReturn ==
  /\ ajax.caller = "page"
  /\ ajax.pc = "returned"
  /\ ajax' = IdleAjax
  /\ UNCHANGED <<program, initial, client>>

\* The pages getInitialCrawlData can be answered with: ytcfgRaw and dataRaw
\* are absent, not JSON, or valid.
Raws == {"absent", "garbled", "valid"}
Html(ytcfgRaw, dataRaw, data) == [ytcfgRaw |-> ytcfgRaw, dataRaw |-> dataRaw, data |-> data]
Htmls ==
  {Html(y, d, EmptyResult) : y \in Raws, d \in Raws \ {"valid"}}
  \cup {Html(y, "valid", EmptyResult) : y \in Raws \ {"valid"}}
  \cup {Html("valid", "valid", data) : data \in YtData}

\* The hidden inputs YT_HIDDEN_INPUT_RE finds in the text of a consent page,
\* in the order of the text.
HiddenInput(name, value) == [name |-> name, value |-> value]
HiddenInputs ==
  {<<>>,
   <<HiddenInput("gl", "a")>>,
   <<HiddenInput("gl", "a"), HiddenInput("hl", "b")>>,
   <<HiddenInput("gl", "a"), HiddenInput("gl", "b")>>,
   <<HiddenInput("gl", "a"), HiddenInput("set_eom", "b")>>,
   <<HiddenInput("continue", "a")>>}

\* The pages served at a consent url hold no data of a video.
ConsentHtmls == {h \in Htmls : h.data = EmptyResult}

PageFetches ==
  {[kind |-> "error", consent |-> FALSE, html |-> Html("absent", "absent", EmptyResult),
    inputs |-> NoInputs]}
  \cup {[kind |-> "response", consent |-> FALSE, html |-> h, inputs |-> NoInputs] :
          h \in Htmls}
  \cup {[kind |-> "response", consent |-> TRUE, html |-> h, inputs |-> inputs] :
          h \in ConsentHtmls, inputs \in HiddenInputs}

ErrYtcfgExtract == "Could not extract ytcfg configuration."
ErrInitialData == "Could not extract initial data."
ErrNoInitialToken == "Could not find the initial continuation token. The YouTube page structure may have changed or comments are disabled."
ErrSyntax == "SyntaxError: Unexpected token in JSON"
ErrFetch == "TypeError: fetch failed"
ErrEndpoint == "TypeError: Cannot read properties of undefined (reading 'webCommandMetadata')"

InitialRaise(in, message) == [in EXCEPT !.pc = "raised", !.message = message]
InitialReturn(in, token) ==
  [in EXCEPT !.pc = "returned", !.continuationToken = token, !.ytcfg = 1]

\* The continuationCommand tokens searchDict finds in the data.
allContinuations(data) ==
  SelectSeq(data.menu, LAMBDA item : item # Null)
  \o [k \in 1..Len(data.section) |-> data.section[k].token]
  \o data.other

Exhausted_returnsNull(in) == InitialReturn(in, Null)

\* No fallback found a token.
Exhausted(in) == InitialRaise(in, ErrNoInitialToken)

\* getInitialCrawlData from the check of the sort menu to its end.
SelectToken(in, data) ==
  LET read == [in EXCEPT !.data = data] IN
  IF Len(data.menu) = 0 \/ in.sortBy >= Len(data.menu)
  THEN InitialRaise(read, ErrSorting)
  ELSE LET sortMenuItem == data.menu[in.sortBy + 1]
           inSection ==
             IF sortMenuItem # Null THEN sortMenuItem
             ELSE IF Len(data.section) > 0 THEN data.section[1].token ELSE Null
           all == allContinuations(data)
           anywhere ==
             IF inSection # Null THEN inSection
             ELSE IF Len(all) > 0 THEN all[1] ELSE Null
           processed == processAjaxResponse(data)
       IN IF anywhere # Null THEN InitialReturn(read, anywhere)
          ELSE IF processed.kind = "raise" THEN InitialRaise(read, ErrServer)
          ELSE IF processed.comments > 0 /\ processed.nextContinuationToken # Null
               THEN InitialReturn(read, processed.nextContinuationToken)
          ELSE Exhausted(read)

\* getInitialCrawlData from the text of the page to the sort menu: the
\* extraction of ytcfg and of the initial data, and the continuation
\* request that loads the comments section when the data has no sort menu.
ParseHtml(in, html) ==
  LET read == [in EXCEPT !.ytcfgRaw = html.ytcfgRaw, !.dataRaw = html.dataRaw] IN
  IF html.ytcfgRaw # "valid"
  THEN /\ initial' = InitialRaise(read, IF html.ytcfgRaw = "absent"
                                        THEN ErrYtcfgExtract ELSE ErrSyntax)
       /\ UNCHANGED ajax
  ELSE IF html.dataRaw # "valid"
  THEN /\ initial' = InitialRaise(read, IF html.dataRaw = "absent"
                                        THEN ErrInitialData ELSE ErrSyntax)
       /\ UNCHANGED ajax
  ELSE IF Len(html.data.menu) = 0 /\ Len(html.data.section) > 0
  THEN /\ initial' = [read EXCEPT !.pc = "ajax", !.data = html.data]
       /\ ajaxRequest(html.data.section[1], "initial")
  ELSE /\ initial' = SelectToken(read, html.data)
       /\ UNCHANGED ajax

\* youtubeUrl and the parameters of the consent request: one entry for each
\* name of a hidden input, then the four fields of the code.
YoutubeUrl == "https://www.youtube.com/watch?v=v"
Assigned(params, name, value) ==
  [n \in DOMAIN params \cup {name} |-> IF n = name THEN value ELSE params[n]]

RECURSIVE Matched(_, _, _)
Matched(params, inputs, k) ==
  IF k > Len(inputs) THEN params
  ELSE Matched(Assigned(params, inputs[k].name, inputs[k].value), inputs, k + 1)

ConsentParams(inputs) ==
  Assigned(Assigned(Assigned(Assigned(Matched(NoParams, inputs, 1),
    "continue", YoutubeUrl), "set_eom", "False"), "set_ytc", "True"), "set_apyt", "True")

\* The text parsed after the consent request: html = await res.text().
ConsentHtml_firstPage(in, res) == in.html
ConsentHtml(in, res) == res.html

\* The call without what its consent block holds.
Consented(in) ==
  [in EXCEPT !.html = NoHtml, !.inputs = NoInputs, !.params = NoParams, !.method = ""]

AfterPageFetch(in, res) ==
  IF res.kind = "error"
  THEN initial' = InitialRaise(Consented(in), ErrFetch) /\ UNCHANGED ajax
  ELSE IF in.pc = "consent"
  THEN ParseHtml([Consented(in) EXCEPT !.served = res.html], ConsentHtml(in, res))
  ELSE IF res.consent
  THEN /\ initial' = [in EXCEPT !.pc = "consent", !.html = res.html,
                                !.inputs = res.inputs,
                                !.params = ConsentParams(res.inputs),
                                !.method = "POST", !.served = res.html]
       /\ UNCHANGED ajax
  ELSE ParseHtml([in EXCEPT !.served = res.html], res.html)

\* getInitialCrawlData: the fetch of the watch page.
getInitialCrawlData(mode) ==
  /\ initial.pc = "idle"
  /\ ajax.pc = "idle"
  /\ \E res \in PageFetches :
       AfterPageFetch([IdleInitial EXCEPT !.pc = "fetch", !.sortBy = SortBy(mode)], res)
  /\ UNCHANGED <<program, client>>

\* getInitialCrawlData: the page was the consent redirect; the consent is
\* posted and the answer taken as the page.
SaveConsent ==
  /\ initial.pc = "consent"
  /\ \E res \in PageFetches : AfterPageFetch(initial, res)
  /\ UNCHANGED <<program, client>>

\* getInitialCrawlData: the continuation request has ended.
InitialAjaxReturn ==
  /\ initial.pc = "ajax"
  /\ ajax.caller = "initial"
  /\ ajax.pc \in {"returned", "raised"}
  /\ initial' = IF ajax.pc = "raised" THEN InitialRaise(initial, ErrEndpoint)
                ELSE SelectToken(initial, ajax.result)
  /\ ajax' = IdleAjax
  /\ UNCHANGED <<program, client>>

\* The caller has taken the outcome of getInitialCrawlData.
InitialDone ==
  /\ initial.pc \in {"returned", "raised"}
  /\ initial' = IdleInitial
  /\ UNCHANGED <<program, ajax, client>>

NextDownloader ==
  \/ \E mode \in CrawlSortBy : getInitialCrawlData(mode)
  \/ SaveConsent
  \/ InitialAjaxReturn
  \/ InitialDone
  \/ \E token \in {SectionToken, NextToken} : fetchCommentPageData(token)
  \/ fetchCommentPageDataReturn
  \/ AjaxAttempt
  \/ AjaxExhausted

SpecDownloader == Init /\ [][NextDownloader]_vars

\* ------------------------------------------------------- proxy-config
MaxSelections == 4
MaxConfigs == 2
\* Math.random() * totalWeight is drawn in steps of 1 / VariateScale.
VariateScale == 2

\* The lists the caller configures: providers without a type (P1, P2, P3)
\* and the caller's providers with a type.
ProviderLists ==
  {<<>>, <<"P1", "P2", "P3">>, <<"W1", "W2">>}

Domains == {"example.com", "another.example.com"}
NoDomain == ""

Range(seq) == {seq[k] : k \in 1..Len(seq)}

\* 'type' in p.
HasType(url) == url \in DOMAIN CallerObjects

\* providers.map of configureProxies: a provider with a type is the caller's
\* object itself, one without is a new object with the default settings.
ConfiguredObjects(objects, providers) ==
  [url \in DOMAIN CallerObjects \cup Range(providers) |->
     IF HasType(url) THEN objects[url]
     ELSE ProxyProvider(url, "default", 1, Null, 0)]

\* configureProxies: the new proxyState.
configureProxies(state, providers, strategy) ==
  [state EXCEPT !.providers = providers, !.enabled = Len(providers) > 0,
                !.currentIndex = 0, !.rotationStrategy = strategy]

ConfigureProxies(providers, strategy) ==
  /\ request.pc = "idle"
  /\ selection.configured < MaxConfigs
  /\ proxyState' = configureProxies(proxyState, providers, strategy)
  /\ providerObjects' = ConfiguredObjects(providerObjects, providers)
  /\ selection' = [NoSelection EXCEPT !.configured = selection.configured + 1]
  /\ UNCHANGED <<program, downloader, request, normalized>>

setProxyEnabled_unchecked(state, enabled) == [state EXCEPT !.enabled = enabled]

setProxyEnabled(state, enabled) ==
  [state EXCEPT !.enabled = enabled /\ Len(state.providers) > 0]

SetProxyEnabled(enabled) ==
  /\ request.pc = "idle"
  /\ proxyState' = setProxyEnabled(proxyState, enabled)
  /\ UNCHANGED <<program, downloader, providerObjects, selection, request, normalized>>

\* provider.weight || 1
WeightOf(provider) == IF provider.weight # Null THEN provider.weight ELSE 1

RECURSIVE SumWeights(_, _, _)
SumWeights(objects, providers, n) ==
  IF n = 0 THEN 0
  ELSE SumWeights(objects, providers, n - 1) + WeightOf(objects[providers[n]])

totalWeight(objects, providers) == SumWeights(objects, providers, Len(providers))

RECURSIVE WeightedIndex_strict(_, _, _, _)
WeightedIndex_strict(objects, providers, random, i) ==
  IF i >= Len(providers) THEN 0
  ELSE LET rest == random - VariateScale * WeightOf(objects[providers[i + 1]]) IN
       IF rest < 0 THEN i ELSE WeightedIndex_strict(objects, providers, rest, i + 1)

\* The loop of the weighted strategy, random counted in steps of
\* 1 / VariateScale: the first i at which random, less the weights up to i,
\* is <= 0, and 0 when there is none.
RECURSIVE WeightedIndex(_, _, _, _)
WeightedIndex(objects, providers, random, i) ==
  IF i >= Len(providers) THEN 0
  ELSE LET rest == random - VariateScale * WeightOf(objects[providers[i + 1]]) IN
       IF rest <= 0 THEN i ELSE WeightedIndex(objects, providers, rest, i + 1)

\* The values of Math.random() a selection reads: floor(random * n) for the
\* random and the sticky strategy, random * totalWeight for the weighted.
Draws(state, objects, domain) ==
  LET n == Len(state.providers)
      none == [index |-> 0, variate |-> 0] IN
  IF ~state.enabled \/ n = 0 THEN {none}
  ELSE IF state.rotationStrategy = RANDOM
       \/ (state.rotationStrategy = STICKY_SESSION /\ domain # NoDomain
           /\ domain \notin DOMAIN state.stickySessionMap)
  THEN {[index |-> k, variate |-> 0] : k \in 0..(n - 1)}
  ELSE IF state.rotationStrategy = WEIGHTED
  THEN {[index |-> 0, variate |-> v] :
          v \in 0..(VariateScale * totalWeight(objects, state.providers) - 1)}
  ELSE {none}

NextIndex_stays(state, index) == index % Len(state.providers)

NextIndex(state, index) == (index + 1) % Len(state.providers)

Used_unlimited(provider, roundRobin) ==
  [provider |-> [provider EXCEPT !.consecutiveUses = @ + 1], advance |-> FALSE]

\* The consecutive uses of the selected provider: one more, and 0 again at
\* its maxConsecutiveUses.
Used(provider, roundRobin) ==
  LET uses == provider.consecutiveUses + 1 IN
  IF provider.maxConsecutiveUses # Null /\ uses >= provider.maxConsecutiveUses
  THEN [provider |-> [provider EXCEPT !.consecutiveUses = 0], advance |-> roundRobin]
  ELSE [provider |-> [provider EXCEPT !.consecutiveUses = uses], advance |-> FALSE]

\* getCurrentProxy(domain), with the values of Math.random() it reads.
getCurrentProxy(state, objects, domain, draw) ==
  LET n == Len(state.providers) IN
  IF ~state.enabled \/ n = 0
  THEN [kind |-> "undefined", index |-> 0, url |-> "", state |-> state, objects |-> objects]
  ELSE
    LET strategy == state.rotationStrategy
        sticky == strategy = STICKY_SESSION /\ domain # NoDomain
        selectedIndex ==
          IF strategy = RANDOM THEN draw.index
          ELSE IF strategy = WEIGHTED
               THEN WeightedIndex(objects, state.providers, draw.variate, 0)
          ELSE IF sticky
               THEN IF domain \in DOMAIN state.stickySessionMap
                    THEN state.stickySessionMap[domain] ELSE draw.index
          ELSE state.currentIndex
        selected ==
          IF strategy \in {RANDOM, WEIGHTED} THEN state
          ELSE IF sticky
          THEN [state EXCEPT !.stickySessionMap =
                  [d \in DOMAIN @ \cup {domain} |->
                     IF d = domain THEN selectedIndex ELSE @[d]]]
          ELSE [state EXCEPT !.currentIndex = NextIndex(state, state.currentIndex)]
    IN IF selectedIndex >= n
       THEN [kind |-> "raise", index |-> selectedIndex, url |-> "",
             state |-> selected, objects |-> objects]
       ELSE LET url == state.providers[selectedIndex + 1]
                used == Used(objects[url], strategy = ROUND_ROBIN)
            IN [kind |-> "provider", index |-> selectedIndex, url |-> url,
                state |-> IF used.advance
                          THEN [selected EXCEPT !.currentIndex = NextIndex(state, selectedIndex)]
                          ELSE selected,
                objects |-> [objects EXCEPT ![url] = used.provider]]

\* The selections since the configuration that returned a provider.
Selected(sel, out) ==
  [sel EXCEPT !.count = IF out.kind = "provider" THEN @ + 1 ELSE @]

GetCurrentProxy(domain) ==
  /\ request.pc = "idle"
  /\ selection.count < MaxSelections
  /\ \E draw \in Draws(proxyState, providerObjects, domain) :
       LET out == getCurrentProxy(proxyState, providerObjects, domain, draw) IN
       /\ proxyState' = out.state
       /\ providerObjects' = out.objects
       /\ selection' = Selected(selection, out)
  /\ UNCHANGED <<program, downloader, request, normalized>>

NoProxy == ""

\* The options fetchWithUserAgent builds for its request.
FetchOptions(method) == [method |-> method, credentials |-> "include", proxy |-> NoProxy]

\* applyProxyToFetchOptions: the options themselves without a proxy, else a
\* copy with cf.proxy set.
applyProxyToFetchOptions(options, out) ==
  IF out.kind # "provider" THEN options ELSE [options EXCEPT !.proxy = out.url]

\* fetchWithUserAgent: the options, the proxy and the first fetch.
FetchWithUserAgent(method) ==
  /\ request.pc = "idle"
  /\ selection.count < MaxSelections
  /\ \E draw \in Draws(proxyState, providerObjects, NoDomain) :
       LET out == getCurrentProxy(proxyState, providerObjects, NoDomain, draw) IN
       /\ proxyState' = out.state
       /\ providerObjects' = out.objects
       /\ selection' = Selected(selection, out)
       /\ request' =
            IF out.kind = "raise"
            THEN [IdleRequest EXCEPT !.pc = "done", !.outcome = "raised"]
            ELSE [IdleRequest EXCEPT
                    !.pc = "proxied", !.proxy = out.url,
                    !.attempts = <<applyProxyToFetchOptions(FetchOptions(method), out)>>]
  /\ UNCHANGED <<program, downloader, normalized>>

FirstFetchFailed_raises(req) == [req EXCEPT !.pc = "done", !.outcome = "raised"]

\* The catch of fetchWithUserAgent: the fetch with the options without proxy.
FirstFetchFailed(req) ==
  [req EXCEPT !.pc = "direct", !.attempts = Append(@, FetchOptions(@[1].method))]

\* fetchWithUserAgent: the first fetch ends.
FirstFetchEnds ==
  /\ request.pc = "proxied"
  /\ \E ok \in BOOLEAN :
       request' = IF ok THEN [request EXCEPT !.pc = "done", !.outcome = "first"]
                  ELSE FirstFetchFailed(request)
  /\ UNCHANGED <<program, downloader, proxyState, providerObjects, selection, normalized>>

\* fetchWithUserAgent: the fetch without proxy ends.
DirectFetchEnds ==
  /\ request.pc = "direct"
  /\ \E ok \in BOOLEAN :
       request' = [request EXCEPT !.pc = "done",
                                  !.outcome = IF ok THEN "direct" ELSE "raised"]
  /\ UNCHANGED <<program, downloader, proxyState, providerObjects, selection, normalized>>

\* The caller has taken the outcome of fetchWithUserAgent.
RequestDone ==
  /\ request.pc = "done"
  /\ request' = IdleRequest
  /\ UNCHANGED <<program, downloader, proxyState, providerObjects, selection, normalized>>

NextProxy ==
  \/ \E providers \in ProviderLists, strategy \in ProxyRotationStrategy :
       ConfigureProxies(providers, strategy)
  \/ \E enabled \in BOOLEAN : SetProxyEnabled(enabled)
  \/ \E domain \in Domains \cup {NoDomain} : GetCurrentProxy(domain)
  \/ FetchWithUserAgent("POST")
  \/ FirstFetchEnds
  \/ DirectFetchEnds
  \/ RequestDone

SpecProxy == Init /\ [][NextProxy]_vars

\* setRotationStrategy(strategy)
setRotationStrategy(state, strategy) == [state EXCEPT !.rotationStrategy = strategy]

SetRotationStrategy(strategy) ==
  /\ request.pc = "idle"
  /\ proxyState' = setRotationStrategy(proxyState, strategy)
  /\ UNCHANGED <<program, downloader, providerObjects, selection, request, normalized>>

\* The calls of the proxy configuration in any order.
NextRotation ==
  \/ \E providers \in ProviderLists, strategy \in ProxyRotationStrategy :
       ConfigureProxies(providers, strategy)
  \/ \E enabled \in BOOLEAN : SetProxyEnabled(enabled)
  \/ \E strategy \in ProxyRotationStrategy : SetRotationStrategy(strategy)
  \/ \E domain \in Domains \cup {NoDomain} : GetCurrentProxy(domain)

SpecRotation == Init /\ [][NextRotation]_vars

\* ------------------------------------------------------------ properties
Terminal(row) == row.status \in {COMPLETED, FAILED}

\* C1: in every reachable state, a row with a non-null continuation_token
\* has a non-null ytcfg.
C1_TokenImpliesYtcfg ==
  \A c \in CrawlIds :
    crawl_status[c].continuation_token # Null => crawl_status[c].ytcfg # Null

\* C2: with no disturbance, the crawl of a chain of MaxPages pages writes
\* PENDING, then IN_PROGRESS and PENDING for every page but the last, then
\* IN_PROGRESS and COMPLETED; it consumes MaxPages page-fetch units, emits
\* one event per unit but the last, and ends with the token cleared.
RECURSIVE ExpectedTrace(_)
ExpectedTrace(n) ==
  IF n = 0 THEN <<PENDING>>
  ELSE IF n = MaxPages THEN ExpectedTrace(n - 1) \o <<IN_PROGRESS, COMPLETED>>
  ELSE ExpectedTrace(n - 1) \o <<IN_PROGRESS, PENDING>>

IsPrefix(p, q) == Len(p) <= Len(q) /\ SubSeq(q, 1, Len(p)) = p

C2_PaginationTermination ==
  hist.clean =>
    /\ IsPrefix(hist.trace, ExpectedTrace(MaxPages))
    /\ hist.emitted <= hist.consumed + 1
    /\ \A c \in CrawlIds :
         crawl_status[c].status = COMPLETED =>
           /\ hist.trace = ExpectedTrace(MaxPages)
           /\ hist.consumed = MaxPages
           /\ hist.emitted = MaxPages
           /\ crawl_status[c].continuation_token = Null
           /\ events[c] = 0
           /\ \A u \in PageSlots : unit[u].pc = "idle"

C2_Witness ==
  /\ hist.clean
  /\ hist.consumed = MaxPages
  /\ \E c \in CrawlIds : crawl_status[c].status = COMPLETED

\* C3: an event is emitted only by a unit whose token has been stored in
\* the row, and the token of a continuation fetch is one that was read
\* from the row.
C3_FetchAfterPersist ==
  /\ \A t \in TriggerSlots :
       trig[t].pc = "send" => trig[t].token \in hist.persisted[trig[t].crawlId]
  /\ \A u \in PageSlots :
       /\ unit[u].pc = "send" =>
            unit[u].nextContinuationToken \in hist.persisted[unit[u].crawlId]
       /\ unit[u].pc \in {"set_in_progress", "fetch"} =>
            unit[u].currentToken \in hist.persisted[unit[u].crawlId]
  /\ \A c \in CrawlIds : events[c] > 0 => hist.persisted[c] # {}

C3_Witness ==
  \E u \in PageSlots : unit[u].pc = "fetch" /\ PageOf(unit[u].currentToken) = 2

\* C4: a restart sets the row to PENDING with token, ytcfg and error
\* message null and goes on to the initial fetch, and every page fetched
\* after the restart uses a token of an initial fetch made after it.
C4_RestartSemantics ==
  [][ /\ \A t \in TriggerSlots :
           trig[t].pc = "restart" /\ trig'[t].pc = "initial" =>
             crawl_status'[trig[t].crawlId] =
               [NewCrawlRow(trig[t].video, trig[t].sortBy) EXCEPT !.status = PENDING]
      /\ \A u \in PageSlots :
           unit[u].pc = "fetch" /\ unit'[u].pc # "fetch" =>
             SessionOf(unit[u].currentToken) > hist.restartedAt[unit[u].crawlId]
    ]_vars

\* C5: there is at most one crawl_status row per pair.
C5_OneRowPerPair ==
  \A c1, c2 \in CrawlIds :
    /\ crawl_status[c1].video_id = crawl_status[c2].video_id
    /\ crawl_status[c1].sort_by = crawl_status[c2].sort_by
    => c1 = c2

C5_Witness ==
  /\ \E t1, t2 \in TriggerSlots :
       /\ t1 # t2
       /\ trig[t1].video = trig[t2].video /\ trig[t1].sortBy = trig[t2].sortBy
       /\ trig[t1].pc = "initial"
       /\ trig[t2].pc = "raised" /\ trig[t2].err = ErrDuplicateKey
  /\ \E t \in TriggerSlots : trig[t].pc = "raised" /\ trig[t].err = ErrDuplicateKey

\* C6: a page-fetch unit that is executed again while the row still holds
\* the token its earlier execution read issues the continuation fetch with
\* that token, and on a page with a next token leaves the row PENDING with
\* that next token.
C6_RerunRefetches ==
  [][ \A u \in PageSlots :
        LET row == crawl_status[unit[u].crawlId] IN
        /\ ( /\ unit[u].pc = "get" /\ unit'[u].pc # "get"
             /\ unit[u].attempt > 0
             /\ sched'.disturbed = sched.disturbed
             /\ row.continuation_token # Null
             /\ row.continuation_token = unit[u].readToken )
           => /\ unit'[u].pc = "set_in_progress"
              /\ unit'[u].currentToken = unit[u].readToken
        /\ ( /\ unit[u].pc = "update_next" /\ unit'[u].pc = "send"
             /\ unit[u].attempt > 0 )
           => /\ crawl_status'[unit[u].crawlId].status = PENDING
              /\ crawl_status'[unit[u].crawlId].continuation_token =
                   NextTokenOf(unit[u].readToken)
    ]_vars

\* C7: duplicate page fetches leave no duplicated audit row and never make
\* the crawl FAILED on a duplicate comment.
C7_DuplicatesTolerated ==
  /\ \A a \in BagToSet(comment_updates) : CopiesIn(a, comment_updates) = 1
  /\ \A c \in CrawlIds : crawl_status[c].error_message # ErrDuplicateKey

\* C8: the catch of a page-fetch unit stores the error message, sets FAILED,
\* leaves the token, emits no event and throws the original error again.
C8_FailureRecorded ==
  [][ \A u \in PageSlots :
        unit[u].pc = "mark_failed" /\ unit'[u].pc # "mark_failed" =>
          LET c == unit[u].crawlId IN
          /\ crawl_status'[c].status = FAILED
          /\ crawl_status'[c].error_message = unit[u].err
          /\ crawl_status'[c].continuation_token = crawl_status[c].continuation_token
          /\ events' = events
          /\ unit'[u].pc = "raised"
          /\ unit'[u].err = unit[u].err
    ]_vars

\* C8 amended: as C8, but when the update that records the failure itself
\* fails, the row is left as it was.
C8_FailureRecordedUnlessStoreError ==
  [][ \A u \in PageSlots :
        unit[u].pc = "mark_failed" /\ unit'[u].pc # "mark_failed" =>
          LET c == unit[u].crawlId IN
          /\ IF sched'.disturbed = sched.disturbed
             THEN /\ crawl_status'[c].status = FAILED
                  /\ crawl_status'[c].error_message = unit[u].err
                  /\ unit[u].err # NullMsg
             ELSE crawl_status'[c] = crawl_status[c]
          /\ crawl_status'[c].continuation_token = crawl_status[c].continuation_token
          /\ crawl_status'[c].ytcfg = crawl_status[c].ytcfg
          /\ events' = events
          /\ unit'[u].pc = "raised"
          /\ unit'[u].err = unit[u].err
    ]_vars

C8_Witness ==
  \E u \in PageSlots :
    /\ unit[u].pc = "raised"
    /\ unit[u].err = ErrServer
    /\ crawl_status[unit[u].crawlId].status = FAILED
    /\ crawl_status[unit[u].crawlId].error_message = ErrServer
    /\ crawl_status[unit[u].crawlId].continuation_token = unit[u].readToken

\* C9: when the initial fetch fails the row becomes FAILED with the message
\* of the failure, no event is emitted and the trigger returns.
InitialFailureMessages ==
  {"Initial fetch failed: " \o ErrSorting, "Initial fetch failed: " \o ErrDb}

C10_TerminalInert ==
  [][ \A c \in CrawlIds :
        Terminal(crawl_status[c]) =>
          /\ \A u \in PageSlots :
               unit[u].crawlId = c /\ unit'[u] # unit[u] =>
                 /\ crawl_status'[c] = crawl_status[c]
                 /\ unit[u].pc # "fetch"
          /\ crawl_status'[c].status # crawl_status[c].status =>
               \E t \in TriggerSlots :
                 /\ trig[t].pc = "restart" /\ trig'[t].pc = "initial"
                 /\ trig[t].crawlId = c
                 /\ crawl_status'[c].status = PENDING
    ]_vars

\* C11: in every reachable state a FAILED row has an error_message that is
\* neither null nor empty.
C11_FailedHasMessage ==
  \A c \in CrawlIds :
    crawl_status[c].status = FAILED =>
      crawl_status[c].error_message \notin {NullMsg, ""}

\* A row a page-fetch unit marked FAILED after a store error, with a
\* trigger about to restart it.
C11_Witness ==
  \E c \in CrawlIds :
    /\ crawl_status[c].status = FAILED
    /\ crawl_status[c].error_message = ErrDb
    /\ \E t \in TriggerSlots : trig[t].pc = "restart" /\ trig[t].crawlId = c

\* The steps of a page-fetch unit that are one store operation.
StoreSteps ==
  {"get", "complete_no_token", "set_in_progress", "select", "update", "audit",
   "insert", "update_next", "mark_completed", "mark_failed"}

\* Unit u takes a step in which its store operation returns an error.
StoreError(u) ==
  /\ unit[u].pc \in StoreSteps
  /\ unit'[u] # unit[u]
  /\ sched'.disturbed > sched.disturbed

C13_PairsNeverContend ==
  /\ \A t \in TriggerSlots :
       trig[t].crawlId # Null =>
         /\ crawl_status[trig[t].crawlId].video_id = trig[t].video
         /\ crawl_status[trig[t].crawlId].sort_by = trig[t].sortBy
  /\ \A id \in DOMAIN hist.writers : Cardinality(hist.writers[id]) <= 1

\* The comment a unit is upserting, and whether its step is a store
\* operation that succeeded.
Upserting(u) == unit[u].comments[unit[u].idx]
StoreOk(u) == unit'[u] # unit[u] /\ sched'.disturbed = sched.disturbed

\* C14: the second upsert of the same payload finds the row of the first
\* and writes nothing: no comment row, no audit row, no timestamp.
C14_UpsertIdempotent ==
  [][ \A u \in PageSlots :
        ( /\ unit[u].pc = "select" /\ unit'[u] # unit[u]
          /\ unit[u].idx > 1
          /\ Upserting(u) = unit[u].comments[unit[u].idx - 1] )
        => /\ Upserting(u).cid \in DOMAIN comments
           /\ comments' = comments
           /\ comment_updates' = comment_updates
           /\ unit'[u].pc \notin {"update", "audit", "insert"}
    ]_vars

\* The second pass of a payload is about to start, later than the first
\* pass wrote the row.
C14_Witness ==
  \E u \in PageSlots :
    /\ unit[u].pc = "select" /\ unit[u].idx = 2
    /\ unit[u].comments[1] = unit[u].comments[2]
    /\ unit[u].comments[2].cid \in DOMAIN comments
    /\ comments[unit[u].comments[2].cid].last_updated_at < Now

\* The audit rows the claim C15 expects: one per differing attribute of
\* text, votes, reply_count and is_hearted.
AuditRow(data, name, old, new) ==
  [comment_id |-> data.comment_id, attribute_name |-> name,
   old_value |-> old, new_value |-> new]

BoolStr(b) == IF b THEN "true" ELSE "false"

FourAttributeChanges(existing, data) ==
  (IF existing.text # data.text
   THEN <<AuditRow(data, "text", existing.text, data.text)>> ELSE <<>>)
  \o (IF existing.votes # data.votes
      THEN <<AuditRow(data, "votes", String(existing.votes), String(data.votes))>>
      ELSE <<>>)
  \o (IF existing.reply_count # data.reply_count
      THEN <<AuditRow(data, "reply_count", String(existing.reply_count),
                      String(data.reply_count))>>
      ELSE <<>>)
  \o (IF existing.is_hearted # data.is_hearted
      THEN <<AuditRow(data, "is_hearted", BoolStr(existing.is_hearted),
                      BoolStr(data.is_hearted))>>
      ELSE <<>>)

\* C15: an upsert of a stored comment whose payload differs in text, votes,
\* reply_count or is_hearted updates the row to the payload's values and
\* writes exactly one audit row per differing attribute.
C15_DiffFourAttributes ==
  [][ \A u \in PageSlots :
        LET data == CurrentComment(u) IN
        /\ ( /\ unit[u].pc = "select" /\ StoreOk(u)
             /\ data.comment_id \in DOMAIN comments
             /\ FourAttributeChanges(comments[data.comment_id], data) # <<>> )
           => unit'[u].pc = "update"
        /\ (unit[u].pc = "update" /\ StoreOk(u))
           => /\ comments'[data.comment_id].text = data.text
              /\ comments'[data.comment_id].votes = data.votes
              /\ comments'[data.comment_id].reply_count = data.reply_count
              /\ comments'[data.comment_id].is_hearted = data.is_hearted
        /\ (unit[u].pc = "audit" /\ StoreOk(u))
           => comment_updates' = comment_updates (+)
                SeqToBag(FourAttributeChanges(unit[u].existing, data))
    ]_vars

\* C16: first_seen_at is the time of the insert and no later step changes
\* it or removes the row.
C16_FirstSeenSetOnce ==
  [][ /\ \A id \in DOMAIN comments :
           /\ id \in DOMAIN comments'
           /\ comments'[id].first_seen_at = comments[id].first_seen_at
      /\ \A id \in DOMAIN comments' \ DOMAIN comments :
           comments'[id].first_seen_at = Now
    ]_vars

\* A comment that was updated later than it was inserted.
C16_Witness ==
  \E id \in DOMAIN comments :
    /\ comments[id].last_updated_at > comments[id].first_seen_at
    /\ BagCardinality(comment_updates) > 0

\* C17: the update of the comment row comes before the insert of the audit
\* rows; a failed update raises and writes nothing, a failed audit insert
\* does not raise and leaves the updated row.
C17_UpdateBeforeAudit ==
  [][ \A u \in PageSlots :
        LET data == CurrentComment(u) IN
        /\ (unit[u].pc = "update" /\ unit'[u] # unit[u])
           => /\ comment_updates' = comment_updates
              /\ IF StoreOk(u)
                 THEN /\ unit'[u].pc = "audit"
                      /\ comments'[data.comment_id].text = data.text
                      /\ comments'[data.comment_id].votes = data.votes
                 ELSE /\ unit'[u].pc = "mark_failed"
                      /\ comments' = comments
        /\ (unit[u].pc = "audit" /\ unit'[u] # unit[u])
           => /\ comments' = comments
              /\ comments[data.comment_id].text = data.text
              /\ comments[data.comment_id].votes = data.votes
              /\ unit'[u].pc \notin {"mark_failed", "raised"}
              /\ IF StoreOk(u)
                 THEN comment_updates' = comment_updates (+)
                        SeqToBag(Changes(unit[u].existing, data))
                 ELSE comment_updates' = comment_updates
    ]_vars

\* A comment was updated, the insert of its audit rows failed and the step
\* went on to its end.
C17_Witness ==
  /\ \A u \in PageSlots : unit[u].pc = "idle"
  /\ sched.disturbed = 1
  /\ comment_updates = EmptyBag
  /\ \E id \in DOMAIN comments :
       comments[id].last_updated_at > comments[id].first_seen_at

\* The parent the claim C18 expects for an identifier.
ParentOf(id) ==
  LET dots == {i \in 1..Len(id) : id[i] = "."} IN
  IF dots = {} THEN Null
  ELSE SubSeq(id, 1, (CHOOSE i \in dots : \A j \in dots : j <= i) - 1)

\* C18: the stored parent_comment_id of a comment is its identifier cut at
\* the last ".", and null for an identifier without ".".
C18_ParentFromIdentifier ==
  \A id \in DOMAIN comments : comments[id].parent_comment_id = ParentOf(id)

\* "a.b.c" is stored with parent "a.b" and "a" with no parent.
C18_Witness ==
  /\ <<"a">> \in DOMAIN comments
  /\ comments[<<"a">>].parent_comment_id = Null
  /\ <<"a", ".", "b", ".", "c">> \in DOMAIN comments
  /\ comments[<<"a", ".", "b", ".", "c">>].parent_comment_id = <<"a", ".", "b">>

\* The empty result follows a 403 or 413 at once; a 429, another non-200
\* status or an error of the fetch costs the attempt and the loop goes on.
AttemptFailed(r) == ~(r.kind = "response" /\ r.status \in {200, 403, 413})

\* What the claim C19 says of one step of the loop of ajaxRequest, for the
\* responses with status 200 it is given.
AjaxLoopStep(ok200(_)) ==
  (ajax.pc = "loop" /\ ajax' # ajax) =>
    LET r == ajax'.last IN
    /\ ajax'.i <= AjaxRetries
    /\ ajax'.pc \in {"loop", "returned"}
    /\ IF ajax.i >= AjaxRetries
       THEN ajax'.pc = "returned" /\ ajax'.result = EmptyResult
       ELSE /\ (r.kind = "response" /\ r.status = 200 /\ ok200(r))
               => (ajax'.pc = "returned" /\ ajax'.result = r.data /\ r.valid)
            /\ (r.kind = "response" /\ r.status \in {403, 413})
               => (ajax'.pc = "returned" /\ ajax'.result = EmptyResult)
            /\ AttemptFailed(r) => (ajax'.pc = "loop" /\ ajax'.i = ajax.i + 1)

\* C19: ajaxRequest makes at most 5 attempts and never raises; it returns
\* the parsed body at the first 200, the empty result at once at a 403 or
\* 413, retries after a 429, another status or an error of the fetch, and
\* returns the empty result after the fifth failed attempt.
C19_AjaxTerminates ==
  [][ /\ AjaxLoopStep(LAMBDA r : TRUE)
      /\ ajax'.pc # "raised"
    ]_vars

\* C19 as the code has it: a 200 whose body does not parse is a failed
\* attempt like an error of the fetch, and a call with an endpoint without
\* commandMetadata raises before the first attempt, and only such a call.
C19_AjaxTerminatesOnParsedBody ==
  [][ /\ AjaxLoopStep(LAMBDA r : r.valid)
      /\ (ajax.pc = "loop" /\ ajax' # ajax /\ ajax.i < AjaxRetries
          /\ ajax'.last.kind = "response" /\ ajax'.last.status = 200
          /\ ~ajax'.last.valid)
         => (ajax'.pc = "loop" /\ ajax'.i = ajax.i + 1)
      /\ (ajax.pc = "idle" /\ ajax' # ajax)
         => (ajax'.pc = "raised" <=> ~ajax'.endpoint.meta)
      /\ (ajax.pc # "idle" /\ ajax' # ajax) => ajax'.pc # "raised"
    ]_vars

\* The fifth attempt was answered 429 and the empty result returned.
C19_Witness ==
  /\ ajax.pc = "returned"
  /\ ajax.i = AjaxRetries
  /\ ajax.last.status = 429
  /\ ajax.result = EmptyResult

\* getInitialCrawlData has ended.
InitialEnded == initial.pc \in {"returned", "raised"}

\* No fallback of getInitialCrawlData finds a token in the data.
NoTokenIn(data) ==
  /\ \A k \in 1..Len(data.menu) : data.menu[k] = Null
  /\ \A k \in 1..Len(data.section) : data.section[k].token = Null
  /\ \A k \in 1..Len(data.other) : data.other[k] = Null

\* C20: getInitialCrawlData returns a non-null token with the ytcfg or
\* raises an error with a message; it raises when ytcfg or the initial data
\* cannot be extracted, when the sort menu is absent or shorter than the
\* index of the mode, and when no fallback finds a token.
C20_InitialTokenOrError ==
  /\ initial.pc = "returned" => (initial.continuationToken # Null /\ initial.ytcfg # Null)
  /\ initial.pc = "raised" => initial.message \notin {NullMsg, ""}
  /\ (InitialEnded /\ initial.ytcfgRaw = "absent")
     => (initial.pc = "raised" /\ initial.message = ErrYtcfgExtract)
  /\ (InitialEnded /\ initial.ytcfgRaw = "valid" /\ initial.dataRaw = "absent")
     => (initial.pc = "raised" /\ initial.message = ErrInitialData)
  /\ (InitialEnded /\ initial.ytcfgRaw = "valid" /\ initial.dataRaw = "valid"
      /\ initial.sortBy >= Len(initial.data.menu))
     => (initial.pc = "raised" /\ initial.message \in {ErrSorting, ErrEndpoint})
  /\ (InitialEnded /\ initial.ytcfgRaw = "valid" /\ initial.dataRaw = "valid"
      /\ initial.sortBy < Len(initial.data.menu) /\ NoTokenIn(initial.data))
     => (initial.pc = "raised" /\ initial.message \in {ErrNoInitialToken, ErrServer})

\* RECENT was asked of a page whose sort menu has the one item of POPULAR,
\* with its token: the call raised.
C20_Witness ==
  /\ initial.pc = "raised"
  /\ initial.message = ErrSorting
  /\ initial.sortBy = SortBy(RECENT)
  /\ Len(initial.data.menu) = 1
  /\ initial.data.menu[1] = MenuToken(1)

\* ------------------------------------------------- processAjaxResponse
\* The bodies of continuation responses: the endpoints of
\* onResponseReceivedEndpoints each hold one command with a targetId and
\* continuationItems; an item is a comment thread, whose replies may end in
\* a continuation of the thread, or a continuationItemRenderer, which
\* carries a continuationEndpoint, a button with a command, or neither.
MaxEndpoints == 2
MaxItems == 2
LaterToken == 6
ReplyToken == 7
PrimaryTarget == "comments-section"
ReplyTarget == "comment-replies-item-1"

\* Sequences over a set of at most n elements.
SeqUpTo(S, n) == UNION {[1..k -> S] : k \in 0..n}

Item(renderer, continuationEndpoint, button, replies) ==
  [renderer |-> renderer, continuationEndpoint |-> continuationEndpoint,
   button |-> button, replies |-> replies]

Items ==
  {Item("commentThreadRenderer", Null, Null, t) : t \in {Null, ReplyToken}}
  \cup {Item("continuationItemRenderer", t, Null, Null) : t \in {Null, NextToken, LaterToken}}
  \cup {Item("continuationItemRenderer", Null, ReplyToken, Null)}
  \cup {Item("continuationItemRenderer", ReplyToken, Null, Null)}

Commands ==
  [key : {"reloadContinuationItemsCommand", "appendContinuationItemsAction"},
   targetId : {PrimaryTarget, ReplyTarget},
   continuationItems : SeqUpTo(Items, MaxItems)]

\* A reply thread is continued by its own commands only.
WellTargeted(command) ==
  \A k \in 1..Len(command.continuationItems) :
    LET item == command.continuationItems[k] IN
    /\ (item.button = ReplyToken \/ item.continuationEndpoint = ReplyToken)
         => command.targetId = ReplyTarget
    /\ item.continuationEndpoint \in {NextToken, LaterToken}
         => command.targetId = PrimaryTarget
    /\ item.renderer = "commentThreadRenderer" => command.targetId = PrimaryTarget

Bodies ==
  {NoBody, [NoBody EXCEPT !.json = "null"]}
  \cup [json : {"object"}, externalErrorMessage : {"", "upstream"},
        onResponseReceivedEndpoints :
          SeqUpTo({c \in Commands : WellTargeted(c)}, MaxEndpoints),
        commentViewModel : {<<>>, <<"c">>}]

Reverse(seq) == [k \in 1..Len(seq) |-> seq[Len(seq) + 1 - k]]
KeyIs(key, command) == command.key = key
\* searchDict pops its stack: the elements of an array are visited last
\* to first.
searchDict(endpoints, key) ==
  Reverse(SelectSeq(endpoints, LAMBDA command : KeyIs(key, command)))

\* The token of item.continuationItemRenderer's continuationEndpoint.
EndpointToken(item) ==
  IF item.renderer = "continuationItemRenderer" THEN item.continuationEndpoint ELSE Null

RECURSIVE ItemsToken(_, _)
ItemsToken(items, k) ==
  IF k > Len(items) THEN Null
  ELSE IF EndpointToken(items[k]) # Null THEN EndpointToken(items[k])
  ELSE ItemsToken(items, k + 1)

RECURSIVE ActionsToken(_, _)
ActionsToken(actions, k) ==
  IF k > Len(actions) THEN Null
  ELSE IF ItemsToken(actions[k].continuationItems, 1) # Null
       THEN ItemsToken(actions[k].continuationItems, 1)
       ELSE ActionsToken(actions, k + 1)

Actions(response) ==
  searchDict(response.onResponseReceivedEndpoints, "reloadContinuationItemsCommand")
  \o searchDict(response.onResponseReceivedEndpoints, "appendContinuationItemsAction")

nextContinuationToken(response) == ActionsToken(Actions(response), 1)

processAjaxResponseBody_parsesErrors(n, response) ==
  [n EXCEPT !.pc = "returned", !.response = response,
            !.comments = response.commentViewModel,
            !.nextContinuationToken = nextContinuationToken(response)]

\* processAjaxResponse on a body: the empty result for no body, the error
\* for an externalErrorMessage, else the comments and the next token.
processAjaxResponseBody(n, response) ==
  IF response.json # "object"
  THEN [n EXCEPT !.pc = "returned", !.response = response]
  ELSE IF response.externalErrorMessage # ""
  THEN [n EXCEPT !.pc = "raised", !.response = response,
                 !.message = ServerError(response.externalErrorMessage)]
  ELSE [n EXCEPT !.pc = "returned", !.response = response,
                 !.comments = response.commentViewModel,
                 !.nextContinuationToken = nextContinuationToken(response)]

ProcessAjaxResponse ==
  /\ normalized.pc = "idle"
  /\ \E response \in Bodies :
       normalized' = processAjaxResponseBody(NotNormalized, response)
  /\ UNCHANGED <<program, downloader, proxyState, providerObjects, selection, request>>

ProcessAjaxResponseDone ==
  /\ normalized.pc # "idle"
  /\ normalized' = NotNormalized
  /\ UNCHANGED <<program, downloader, proxyState, providerObjects, selection, request>>

NextNormalize ==
  \/ ProcessAjaxResponse
  \/ ProcessAjaxResponseDone

SpecNormalize == Init /\ [][NextNormalize]_vars

\* The calls of getCurrentProxy that can be made in the current state, and
\* the outcome of one.
Selecting == proxyState.enabled /\ Len(proxyState.providers) > 0
AnyDomain == Domains \cup {NoDomain}
Outcome(domain, draw) == getCurrentProxy(proxyState, providerObjects, domain, draw)

\* C23: under round-robin the selection after k - 1 selections since the
\* configuration returns provider number (k - 1) mod n of the list.
C23_RoundRobinOrder ==
  (Selecting /\ proxyState.rotationStrategy = ROUND_ROBIN) =>
    \A domain \in AnyDomain : \A draw \in Draws(proxyState, providerObjects, domain) :
      LET out == Outcome(domain, draw)
          n == Len(proxyState.providers) IN
      /\ out.kind = "provider"
      /\ out.url = proxyState.providers[(selection.count % n) + 1]

\* Three providers, four selections: P1, P2, P3, P1.
C23_Witness ==
  /\ proxyState.rotationStrategy = ROUND_ROBIN
  /\ proxyState.providers = <<"P1", "P2", "P3">>
  /\ selection.count = 4
  /\ providerObjects["P1"].consecutiveUses = 2
  /\ providerObjects["P2"].consecutiveUses = 1
  /\ providerObjects["P3"].consecutiveUses = 1

\* C24: proxies are enabled only with a provider configured; without a
\* provider or disabled, a selection returns no proxy and changes nothing,
\* and applyProxyToFetchOptions returns the options it was given.
C24_NoProxyWhenDisabled ==
  /\ proxyState.enabled => Len(proxyState.providers) > 0
  /\ Len(proxyState.providers) = 0 => ~setProxyEnabled(proxyState, TRUE).enabled
  /\ ~Selecting =>
       \A domain \in AnyDomain : \A draw \in Draws(proxyState, providerObjects, domain) :
         LET out == Outcome(domain, draw) IN
         /\ out.kind = "undefined"
         /\ out.state = proxyState
         /\ out.objects = providerObjects
         /\ \A method \in {"GET", "POST"} :
              applyProxyToFetchOptions(FetchOptions(method), out) = FetchOptions(method)
  /\ (request.pc = "proxied" /\ request.proxy = NoProxy)
       => request.attempts = <<FetchOptions(request.attempts[1].method)>>

\* Providers are configured, were used and are disabled; a request is on
\* its way without a proxy.
C24_Witness ==
  /\ ~proxyState.enabled
  /\ Len(proxyState.providers) > 0
  /\ selection.count > 0
  /\ request.pc = "proxied"
  /\ request.proxy = NoProxy

\* C25: under sticky-session a selection with a key returns the provider
\* the key is bound to, binding it first when it is not bound; it changes
\* no other binding, and a selection without a key follows round-robin and
\* changes no binding.
C25_StickyBinding ==
  (Selecting /\ proxyState.rotationStrategy = STICKY_SESSION) =>
    \A domain \in AnyDomain : \A draw \in Draws(proxyState, providerObjects, domain) :
      LET out == Outcome(domain, draw)
          map == proxyState.stickySessionMap
          after == out.state.stickySessionMap IN
      /\ out.kind = "provider"
      /\ \A d \in DOMAIN map : d \in DOMAIN after /\ after[d] = map[d]
      /\ IF domain = NoDomain
         THEN /\ after = map
              /\ out.url = proxyState.providers[proxyState.currentIndex + 1]
         ELSE /\ DOMAIN after = DOMAIN map \cup {domain}
              /\ out.url = proxyState.providers[after[domain] + 1]

\* The provider the claim C26 selects for the variate v / VariateScale:
\* the i with (weights before i) <= r < (weights up to i).
RECURSIVE IntervalIndex(_, _, _, _, _)
IntervalIndex(objects, providers, v, i, before) ==
  LET upTo == before + VariateScale * WeightOf(objects[providers[i + 1]]) IN
  IF before <= v /\ v < upTo THEN i
  ELSE IntervalIndex(objects, providers, v, i + 1, upTo)

\* The same with the intervals closed at their upper ends: the i with
\* (weights before i) < r <= (weights up to i), and the first for r = 0.
RECURSIVE ClosedIntervalIndex(_, _, _, _, _)
ClosedIntervalIndex(objects, providers, v, i, before) ==
  LET upTo == before + VariateScale * WeightOf(objects[providers[i + 1]]) IN
  IF (before < v \/ i = 0) /\ v <= upTo THEN i
  ELSE ClosedIntervalIndex(objects, providers, v, i + 1, upTo)

\* C26: under the weighted strategy the variate r in [0, W) selects the
\* provider i with (weights before i) <= r < (weights up to i).
C26_WeightedIntervals ==
  (Selecting /\ proxyState.rotationStrategy = WEIGHTED) =>
    \A draw \in Draws(proxyState, providerObjects, NoDomain) :
      LET out == Outcome(NoDomain, draw) IN
      /\ out.kind = "provider"
      /\ out.url = proxyState.providers[
           IntervalIndex(providerObjects, proxyState.providers, draw.variate, 0, 0) + 1]

\* C26 as the code has it: the variate r selects the provider i with
\* (weights before i) < r <= (weights up to i), r = 0 the first; every
\* provider is selected for some r.
C26_WeightedIntervalsClosedAbove ==
  (Selecting /\ proxyState.rotationStrategy = WEIGHTED) =>
    /\ \A draw \in Draws(proxyState, providerObjects, NoDomain) :
         LET out == Outcome(NoDomain, draw) IN
         /\ out.kind = "provider"
         /\ out.url = proxyState.providers[
              ClosedIntervalIndex(providerObjects, proxyState.providers,
                                  draw.variate, 0, 0) + 1]
    /\ \A k \in 1..Len(proxyState.providers) :
         \E draw \in Draws(proxyState, providerObjects, NoDomain) :
           Outcome(NoDomain, draw).url = proxyState.providers[k]

\* Weights 3 and 1: both providers were selected.
C26_Witness ==
  /\ proxyState.rotationStrategy = WEIGHTED
  /\ proxyState.providers = <<"W1", "W2">>
  /\ proxyState.enabled
  /\ providerObjects["W1"].consecutiveUses > 0
  /\ providerObjects["W2"].consecutiveUses > 0
  /\ selection.count = 2

\* C27: configureProxies sets the list to the new one, the index to 0 and
\* the consecutive uses of its providers to 0, and leaves no domain bound.
C27_ReconfigurationResets ==
  \A providers \in ProviderLists, strategy \in ProxyRotationStrategy :
    LET state == configureProxies(proxyState, providers, strategy)
        objects == ConfiguredObjects(providerObjects, providers) IN
    /\ state.providers = providers
    /\ state.currentIndex = 0
    /\ \A url \in Range(providers) : objects[url].consecutiveUses = 0
    /\ DOMAIN state.stickySessionMap = {}

\* C28: when the first fetch of fetchWithUserAgent fails there is one more
\* fetch, with the options without proxy, and its outcome is the outcome of
\* the call; the call fails only when that fetch fails.
C28_DirectFallback ==
  [][ /\ (request.pc = "proxied" /\ request' # request) =>
           \/ request'.pc = "done" /\ request'.outcome = "first"
                /\ request'.attempts = request.attempts
           \/ request'.pc = "direct"
                /\ request'.attempts =
                     Append(request.attempts, FetchOptions(request.attempts[1].method))
      /\ (request.pc = "direct" /\ request' # request) =>
           /\ request'.pc = "done"
           /\ request'.outcome \in {"direct", "raised"}
           /\ request'.attempts = request.attempts
      /\ (request'.pc = "done" /\ request'.outcome = "raised" /\ request' # request)
           => request.pc = "direct"
    ]_vars

\* The fetch through a proxy failed and the fetch without it was answered.
C28_Witness ==
  /\ request.pc = "done"
  /\ request.outcome = "direct"
  /\ request.proxy # NoProxy
  /\ Len(request.attempts) = 2
  /\ request.attempts[1].proxy = request.proxy
  /\ request.attempts[2].proxy = NoProxy

\* C29: a selection adds one to the consecutive uses of the provider it
\* returns and sets them to 0 at the provider's maxConsecutiveUses, so they
\* stay below it; under round-robin the next selection returns the provider
\* after the returned one.
C29_ConsecutiveUses ==
  /\ \A url \in DOMAIN providerObjects :
       providerObjects[url].maxConsecutiveUses # Null
         => providerObjects[url].consecutiveUses < providerObjects[url].maxConsecutiveUses
  /\ Selecting =>
       \A domain \in AnyDomain : \A draw \in Draws(proxyState, providerObjects, domain) :
         LET out == Outcome(domain, draw)
             n == Len(proxyState.providers) IN
         out.kind = "provider" =>
           LET before == providerObjects[out.url]
               after == out.objects[out.url] IN
           /\ after.consecutiveUses =
                IF before.maxConsecutiveUses # Null
                   /\ before.consecutiveUses + 1 >= before.maxConsecutiveUses
                THEN 0 ELSE before.consecutiveUses + 1
           /\ \A url \in DOMAIN providerObjects \ {out.url} :
                out.objects[url] = providerObjects[url]
           /\ proxyState.rotationStrategy = ROUND_ROBIN =>
                \A next \in Draws(out.state, out.objects, domain) :
                  getCurrentProxy(out.state, out.objects, domain, next).url
                    = proxyState.providers[((out.index + 1) % n) + 1]

\* W1 with its limit of 2 was selected twice under round-robin and its
\* consecutive uses are 0 again.
C29_Witness ==
  /\ proxyState.rotationStrategy = ROUND_ROBIN
  /\ proxyState.providers = <<"W1", "W2">>
  /\ selection.count = 4
  /\ selection.configured = 1
  /\ providerObjects["W1"].consecutiveUses = 0
  /\ providerObjects["W2"].consecutiveUses = 2

\* A continuation response that holds an externalErrorMessage next to a
\* comment and a continuation of the comments section.
ErrorBody ==
  [json |-> "object", externalErrorMessage |-> "upstream",
   onResponseReceivedEndpoints |->
     <<[key |-> "appendContinuationItemsAction", targetId |-> PrimaryTarget,
        continuationItems |->
          <<Item("commentThreadRenderer", Null, Null, Null),
            Item("continuationItemRenderer", NextToken, Null, Null)>>]>>,
   commentViewModel |-> <<"c">>]

\* C21: a response with an externalErrorMessage makes processAjaxResponse
\* raise an error with that message and return no comment and no token;
\* the page-fetch unit then writes no comment, emits no event and leaves
\* the continuation token of the row as it was, in this step and in the
\* step that records the failure.
C21_UpstreamErrorAborts ==
  [][ \A u \in PageSlots :
        /\ (unit[u].pc = "fetch" /\ unit'[u].pc = "mark_failed") =>
             LET n == processAjaxResponseBody(NotNormalized, ErrorBody)
                 c == unit[u].crawlId IN
             /\ n.pc = "raised"
             /\ n.message = ServerError(ErrorBody.externalErrorMessage)
             /\ n.comments = <<>>
             /\ n.nextContinuationToken = Null
             /\ unit'[u].err = n.message
             /\ unit'[u].comments = <<>>
             /\ comments' = comments
             /\ comment_updates' = comment_updates
             /\ events' = events
             /\ crawl_status' = crawl_status
             /\ unit'[u].crawlId = c
        /\ (unit[u].pc = "mark_failed" /\ unit[u].err = ErrServer
              /\ unit'[u] # unit[u]) =>
             /\ comments' = comments
             /\ comment_updates' = comment_updates
             /\ events' = events
             /\ crawl_status'[unit[u].crawlId].continuation_token
                  = crawl_status[unit[u].crawlId].continuation_token
    ]_vars

\* The fetch step of a page-fetch unit raised the error of the response.
C21_Witness ==
  \E u \in PageSlots :
    /\ unit[u].pc = "mark_failed"
    /\ unit[u].err = ServerError("upstream")
    /\ unit[u].comments = <<>>
    /\ crawl_status[unit[u].crawlId].status = IN_PROGRESS
    /\ crawl_status[unit[u].crawlId].continuation_token = unit[u].readToken
    /\ unit[u].readToken # Null

\* The continuation items of the primary comments section in a response:
\* the positions <<i, k>> of the scan, command i and item k of it.
PrimaryContinuations(response) ==
  LET actions == Actions(response) IN
  {pos \in (1..Len(actions)) \X (1..MaxItems) :
     /\ actions[pos[1]].targetId = PrimaryTarget
     /\ pos[2] <= Len(actions[pos[1]].continuationItems)
     /\ actions[pos[1]].continuationItems[pos[2]].renderer = "continuationItemRenderer"
     /\ actions[pos[1]].continuationItems[pos[2]].continuationEndpoint # Null}

Before(p, q) == p[1] < q[1] \/ (p[1] = q[1] /\ p[2] < q[2])

\* C22: the next token processAjaxResponse returns is the token of the first
\* continuation item of the primary comments section, never a continuation
\* of a reply thread, and null when the primary section has none.
C22_NextTokenOfPrimarySection ==
  (normalized.pc = "returned" /\ normalized.response.json = "object") =>
    LET primary == PrimaryContinuations(normalized.response)
        actions == Actions(normalized.response) IN
    /\ normalized.nextContinuationToken # ReplyToken
    /\ IF primary = {}
       THEN normalized.nextContinuationToken = Null
       ELSE \E pos \in primary :
              /\ \A other \in primary : ~Before(other, pos)
              /\ normalized.nextContinuationToken =
                   actions[pos[1]].continuationItems[pos[2]].continuationEndpoint

\* The four fields getInitialCrawlData adds to the consent request.
FixedFields ==
  [continue |-> YoutubeUrl, set_eom |-> "False", set_ytc |-> "True", set_apyt |-> "True"]

\* The step of getInitialCrawlData that finds the consent marker, and the
\* step that posts the consent and parses the answer.
ConsentFound == initial.pc # "consent" /\ initial'.pc = "consent"
ConsentSaved == initial.pc = "consent" /\ initial' # initial

\* The configuration and the initial data are read from the page the
\* consent request was answered with, unless that request failed.
ParsedFromConsentResponse ==
  \/ /\ initial'.pc = "raised"
     /\ initial'.message = ErrFetch
     /\ initial'.ytcfgRaw = "unread"
  \/ /\ initial'.ytcfgRaw = initial'.served.ytcfgRaw
     /\ initial'.dataRaw = initial'.served.dataRaw
     /\ initial'.served.ytcfgRaw = "absent"
          => initial'.pc = "raised" /\ initial'.message = ErrYtcfgExtract
     /\ (initial'.served.ytcfgRaw = "valid" /\ initial'.served.dataRaw = "absent")
          => initial'.pc = "raised" /\ initial'.message = ErrInitialData
     /\ (initial'.served.ytcfgRaw = "valid" /\ initial'.served.dataRaw = "valid")
          => initial'.data = initial'.served.data

\* C30: with N hidden inputs in the consent page the consent request carries
\* those N pairs and the four fixed fields, N + 4 in all, and the page is
\* then parsed from the answer to the consent request.
C30_ConsentRequest ==
  [][ /\ ConsentFound =>
           /\ initial'.method = "POST"
           /\ Cardinality(DOMAIN initial'.params) = Len(initial'.inputs) + 4
           /\ \A k \in 1..Len(initial'.inputs) :
                /\ initial'.inputs[k].name \in DOMAIN initial'.params
                /\ initial'.params[initial'.inputs[k].name] = initial'.inputs[k].value
           /\ \A name \in DOMAIN FixedFields :
                /\ name \in DOMAIN initial'.params
                /\ initial'.params[name] = FixedFields[name]
      /\ ConsentSaved => ParsedFromConsentResponse
    ]_vars

\* C30 amended: the consent request carries one pair for each name among
\* the hidden inputs that is not a fixed field, with the value of the last
\* input of that name, and the four fixed fields; the page is then parsed
\* from the answer to the consent request.
C30_ConsentRequestByName ==
  [][ /\ ConsentFound =>
           LET inputs == initial'.inputs
               names == {inputs[k].name : k \in 1..Len(inputs)} IN
           /\ initial'.method = "POST"
           /\ DOMAIN initial'.params = names \cup DOMAIN FixedFields
           /\ \A name \in DOMAIN FixedFields : initial'.params[name] = FixedFields[name]
           /\ \A k \in 1..Len(inputs) :
                (/\ inputs[k].name \notin DOMAIN FixedFields
                 /\ \A j \in (k + 1)..Len(inputs) : inputs[j].name # inputs[k].name)
                  => initial'.params[inputs[k].name] = inputs[k].value
      /\ ConsentSaved => ParsedFromConsentResponse
    ]_vars

\* A consent page without configuration and with two hidden inputs was
\* found and the request with six fields built.
C30_Witness ==
  /\ initial.pc = "consent"
  /\ Len(initial.inputs) = 2
  /\ initial.inputs[1].name # initial.inputs[2].name
  /\ Cardinality(DOMAIN initial.params) = 6
  /\ initial.params["continue"] = YoutubeUrl
  /\ initial.html.ytcfgRaw = "absent"

\* A page-fetch unit reads a PENDING or IN_PROGRESS row without a token,
\* and the unit ends its step mark-crawl-completed-no-token-fetch.
FoundNoToken(u) ==
  /\ unit[u].pc = "get"
  /\ unit'[u].pc # "get"
  /\ sched'.disturbed = sched.disturbed
  /\ crawl_status[unit[u].crawlId].status \in {PENDING, IN_PROGRESS}
  /\ crawl_status[unit[u].crawlId].continuation_token = Null
MarkedNoToken(u) == unit[u].pc = "complete_no_token" /\ unit'[u].pc # "complete_no_token"

\* Neither step fetches, writes a comment or emits an event.
NoTokenFrame(u) ==
  /\ comments' = comments
  /\ comment_updates' = comment_updates
  /\ events' = events
  /\ unit'[u].pc \notin {"set_in_progress", "fetch"}
  /\ crawl_status'[unit[u].crawlId].status = IN_PROGRESS
       => crawl_status[unit[u].crawlId].status = IN_PROGRESS

FoundRunning(t) ==
  /\ trig[t].pc = "check"
  /\ trig'[t] # trig[t]
  /\ sched'.disturbed = sched.disturbed
  /\ \E c \in CrawlIds :
       /\ crawl_status[c].video_id = trig[t].video
       /\ crawl_status[c].sort_by = trig[t].sortBy
       /\ crawl_status[c].status \in {PENDING, IN_PROGRESS}

\* C32: a trigger for a pair whose row is PENDING or IN_PROGRESS returns
\* at once: no row changes, no initial fetch is made and no page-fetch
\* event is emitted.
C32_TriggerSkipsRunning ==
  [][ \A t \in TriggerSlots :
        FoundRunning(t) =>
          /\ trig'[t] = IdleTrigger
          /\ crawl_status' = crawl_status
          /\ events' = events
          /\ sched'.sessions = sched.sessions
          /\ unit' = unit
          /\ comments' = comments
    ]_vars

\* A second trigger for the pair is about to read its row, which is
\* IN_PROGRESS with a page-fetch unit at work.
C32_Witness ==
  \E t \in TriggerSlots, c \in CrawlIds, u \in PageSlots :
    /\ trig[t].pc = "check"
    /\ crawl_status[c].video_id = trig[t].video
    /\ crawl_status[c].sort_by = trig[t].sortBy
    /\ crawl_status[c].status = IN_PROGRESS
    /\ unit[u].pc = "fetch"
    /\ unit[u].crawlId = c
    /\ sched.triggers = 2
    /\ CanDisturb

\* Page-fetch unit u reads a PENDING or IN_PROGRESS row that holds a token
\* and no ytcfg.
FoundNoYtcfg(u) ==
  /\ unit[u].pc = "get"
  /\ unit'[u] # unit[u]
  /\ sched'.disturbed = sched.disturbed
  /\ crawl_status[unit[u].crawlId].status \in {PENDING, IN_PROGRESS}
  /\ crawl_status[unit[u].crawlId].continuation_token # Null
  /\ crawl_status[unit[u].crawlId].ytcfg = Null

\* C33: a page-fetch unit that finds a token and no ytcfg raises before any
\* continuation request and leaves the row as it was, neither IN_PROGRESS
\* nor FAILED by its doing; no other step raises that error.
C33_MissingYtcfgFatalAtFetch ==
  [][ \A u \in PageSlots :
        /\ FoundNoYtcfg(u) =>
             /\ unit'[u].pc = "raised"
             /\ unit'[u].err = ErrYtcfgMissing
             /\ crawl_status' = crawl_status
             /\ comments' = comments
             /\ events' = events
        /\ (unit'[u].err = ErrYtcfgMissing /\ unit[u].err # ErrYtcfgMissing)
             => FoundNoYtcfg(u)
        /\ (unit[u].err = ErrYtcfgMissing /\ unit'[u] # unit[u]) =>
             /\ unit[u].pc = "raised"
             /\ unit'[u].pc \in {"get", "idle"}
             /\ crawl_status' = crawl_status
             /\ events' = events
      /\ \A t \in TriggerSlots : trig'[t].err # ErrYtcfgMissing
    ]_vars

\* A unit raised for the missing ytcfg and the row is still PENDING with
\* its token and without an error message.
C33_Witness ==
  \E u \in PageSlots :
    /\ unit[u].pc = "raised"
    /\ unit[u].err = ErrYtcfgMissing
    /\ crawl_status[unit[u].crawlId].status = PENDING
    /\ crawl_status[unit[u].crawlId].continuation_token # Null
    /\ crawl_status[unit[u].crawlId].ytcfg = Null
    /\ crawl_status[unit[u].crawlId].error_message = NullMsg

\* The continuation fetch of unit u ends without a page and without an
\* error: the empty result of ajaxRequest.
FetchedNothing(u) ==
  /\ unit[u].pc = "fetch"
  /\ unit'[u].pc # "fetch"
  /\ sched'.disturbed # sched.disturbed
  /\ unit'[u].err = NullMsg

\* The update of the step mark-crawl-completed of unit u succeeds.
MarkedCompleted(u) ==
  /\ unit[u].pc = "mark_completed"
  /\ unit'[u] # unit[u]
  /\ sched'.disturbed = sched.disturbed

BatchComment(u) == unit[u].comments[unit[u].idx]

\* One pass of the loop of processCommentBatch.
BatchPass(u) == unit[u].pc = "upsert" /\ unit'[u] # unit[u]

\* The tables after the comment alone was upserted into them without an
\* error: a new row, or the stored row with the attributes of the comment
\* and one audit row for each attribute that differs.
UpsertedAlone(u) ==
  LET data == CommentData(BatchComment(u), crawl_status[unit[u].crawlId].video_id, Now)
      id == data.comment_id
  IN IF id \notin DOMAIN comments
     THEN /\ comments' = comments @@ (id :> InsertedComment(data, Now))
          /\ comment_updates' = comment_updates
     ELSE LET old == comments[id]
              differs == old.text # data.text \/ old.reply_count # data.reply_count
          IN /\ DOMAIN comments' = DOMAIN comments
             /\ \A other \in DOMAIN comments \ {id} : comments'[other] = comments[other]
             /\ comments'[id] =
                  IF differs
                  THEN [old EXCEPT !.text = data.text, !.reply_count = data.reply_count,
                                   !.last_updated_at = Now]
                  ELSE old
             /\ BagCardinality(comment_updates') - BagCardinality(comment_updates)
                  = (IF old.text # data.text THEN 1 ELSE 0)
                    + (IF old.reply_count # data.reply_count THEN 1 ELSE 0)
             /\ \A row \in BagToSet(comment_updates') :
                  CopiesIn(row, comment_updates') # CopiesIn(row, comment_updates) =>
                    /\ row.comment_id = id
                    /\ row.attribute_name \in {"text", "reply_count"}
                    /\ row.attribute_name = "text" =>
                         row.old_value = old.text /\ row.new_value = data.text
                    /\ row.attribute_name = "reply_count" =>
                         /\ row.old_value = String(old.reply_count)
                         /\ row.new_value = String(data.reply_count)

\* C36: processCommentBatch takes the comments one at a time in order and
\* never raises; a pass whose store operations succeed leaves the tables
\* exactly as the upsert of its comment alone does, whatever happened to
\* the comments before it, and a pass that fails touches no other comment.
C36_LenientBatch ==
  [][ \A u \in PageSlots :
        BatchPass(u) =>
          /\ unit'[u].pc \in {"upsert", "batch_done"}
          /\ unit'[u].err = NullMsg
          /\ unit'[u].comments = unit[u].comments
          /\ unit'[u].pc = "upsert" <=> unit[u].idx < Len(unit[u].comments)
          /\ unit'[u].pc = "upsert" => unit'[u].idx = unit[u].idx + 1
          /\ IF sched'.disturbed = sched.disturbed
             THEN UpsertedAlone(u)
             ELSE /\ DOMAIN comments' = DOMAIN comments
                  /\ \A other \in DOMAIN comments \ {BatchComment(u).cid} :
                       comments'[other] = comments[other]
                  /\ comment_updates' = comment_updates
    ]_vars

\* The batch is over: the upsert of its first comment failed and its second
\* comment is stored.
C36_Witness ==
  \E u \in PageSlots :
    /\ unit[u].pc = "batch_done"
    /\ Len(unit[u].comments) = 2
    /\ sched.disturbed > 0
    /\ unit[u].comments[1].cid \notin DOMAIN comments
    /\ unit[u].comments[2].cid \in DOMAIN comments

\* A trigger unit or a page-fetch unit for the pair of row c is pending,
\* running or awaiting its retry.
Outstanding(c) ==
  \/ events[c] > 0
  \/ \E u \in PageSlots : unit[u].pc # "idle" /\ unit[u].crawlId = c
  \/ \E t \in TriggerSlots :
       /\ trig[t].pc # "idle"
       /\ trig[t].video = crawl_status[c].video_id
       /\ trig[t].sortBy = crawl_status[c].sort_by

\* C35: a row with no outstanding trigger unit and no outstanding
\* page-fetch unit is COMPLETED or FAILED; no row is left PENDING or
\* IN_PROGRESS with nothing to move it.
C35_NeverStuck ==
  \A c \in DOMAIN crawl_status :
    Outstanding(c) \/ crawl_status[c].status \in {COMPLETED, FAILED}

\* C37: no step removes or alters an audit row or removes a comment: every
\* audit row is still there afterwards, as many times, with its attribute,
\* old value and new value, and every stored comment id is still stored.
C37_AppendOnly ==
  [][ /\ \A row \in BagToSet(comment_updates) :
           /\ BagIn(row, comment_updates')
           /\ CopiesIn(row, comment_updates') >= CopiesIn(row, comment_updates)
      /\ DOMAIN comments \subseteq DOMAIN comments'
    ]_vars

\* A batch is over with two audit rows and a stored comment: the later
\* change was logged next to the earlier one.
C37_Witness ==
  \E u \in PageSlots :
    /\ unit[u].pc = "batch_done"
    /\ BagCardinality(comment_updates) >= 2
    /\ Cardinality(BagToSet(comment_updates)) >= 2
    /\ unit[u].comments[1].cid \in DOMAIN comments

\* The page-fetch units of row c that are pending, running or awaiting
\* their retry.
PageUnits(c) ==
  events[c] + Cardinality({u \in PageSlots : unit[u].pc # "idle" /\ unit[u].crawlId = c})

\* C38: with the triggers of a pair processed one after another, at most
\* one page-fetch unit of the pair is pending, running or awaiting its
\* retry.
C38_OnePageUnit == \A c \in DOMAIN crawl_status : PageUnits(c) <= 1

\* C39: a row whose status is COMPLETED has a null continuation_token.
C39_CompletedHasNoToken ==
  \A c \in DOMAIN crawl_status :
    crawl_status[c].status = COMPLETED => crawl_status[c].continuation_token = Null

\* C40: whatever was configured, enabled and selected before, a selection
\* for any domain key returns no proxy or a provider of the configured
\* list, at an index inside the list, and does not raise.
C40_SelectionInsideList ==
  \A domain \in AnyDomain : \A draw \in Draws(proxyState, providerObjects, domain) :
    LET out == Outcome(domain, draw)
        n == Len(proxyState.providers) IN
    \/ out.kind = "undefined"
    \/ /\ out.kind = "provider"
       /\ out.index \in 0..(n - 1)
       /\ out.url = proxyState.providers[out.index + 1]

====
